---- MODULE Spec2Model ----
(***************************************************************************)
(* Model of the Tableview widget (src/Tableview.tsx): the grid document,   *)
(* the pointer-driven selection machine, the edit operations and the       *)
(* persistence bridge.                                                     *)
(*                                                                         *)
(* Encodings.  A cell id "cell_R_C" is the pair <<R, C>>; a merge id       *)
(* "r1_c1_r2_c2" is the tuple <<r1, c1, r2, c2>>; the empty string, null   *)
(* and an absent attribute value are the empty tuple <<>>.  A serialized   *)
(* document is a one-element tuple holding the record that JSON.stringify  *)
(* was given.  Times are in milliseconds; instead of the absolute clock    *)
(* the model keeps, for every timer, the time left until it fires, and for *)
(* the last click the time that has passed since it.                       *)
(*                                                                         *)
(* The host enables every feature of the component (checkboxes, editing,   *)
(* merging, blank cells, the add and generate buttons).                    *)
(*                                                                         *)
(* React.  A handler and the effects that its state changes trigger are    *)
(* one step: the effects on [rowCountAttribute.value, rowCount] and on     *)
(* [columnCountAttribute.value, columnCount] run, in this order, when one  *)
(* of their dependencies changed.  A value given to an attribute's         *)
(* setValue is the attribute's value from that step on.                    *)
(***************************************************************************)
EXTENDS Integers, Sequences, FiniteSets, TLC

VARIABLES
    tableRows,              \* useState<TableRow[]>
    rowCount,               \* useState<number>
    columnCount,            \* useState<number>
    selectedCells,          \* useState<Set<string>>
    isDragging,             \* isDraggingRef (mirrored by the isDragging state)
    dragStart,              \* dragStartRef: <<>> or <<row, col>>
    dragHasMoved,           \* dragHasMovedRef
    lastClickCell,          \* lastClickCellRef: <<>> or a cell id
    sinceLastClick,         \* Date.now() - lastClickTimeRef, saturated at DoubleClickMs
    lastSavedData,          \* lastSavedDataRef: <<>> or <<document>>
    isSaving,               \* useState<boolean>
    savingTimers,           \* pending setTimeout(() => setIsSaving(false), 200): times left
    saveTimeout,            \* saveTimeoutRef: <<>> or <<time left>> of the pending debounce timer
    debounceTimers,         \* the debounce callbacks scheduled with setTimeout(..., 300) and
                            \* neither run nor cleared: their times left
    latestTableState,       \* latestTableStateRef: <<>> or <<[rows, rowCount, columnCount]>>
    burst,                  \* the value changes that followed one another within DebounceMs:
                            \* how many, the time since the last, the writes before the first (history)
    writes,                 \* number of documents written to the host so far
    useAttributeData,       \* props.useAttributeData.value: <<>> or <<document>>
    rowCountAttribute,      \* props.rowCountAttribute.value: <<>> or <<number>>
    columnCountAttribute,   \* props.columnCountAttribute.value: <<>> or <<number>>
    statistics,             \* the three statistics attributes last published
    ignoreAttributeUpdate,  \* ignoreAttributeUpdateRef
    isUserInput,            \* isUserInputRef
    userInputTimers,        \* pending setTimeout(() => isUserInputRef.current = false, 100)
    dataLoaded,             \* useState<boolean>
    mountTimer,             \* the mount effect's setTimeout(..., 100): <<>> or
                            \* <<time left, rowCount, columnCount of its closure>>
    autoSave,               \* props.autoSave
    mounted,                \* the component instance is mounted (not yet disposed)
    lastEvent,              \* the handler that ran last (history)
    gesture,                \* what the selection was at the last pointerdown, and the run of
                            \* rapid clicks on one cell that is under way (history)
    edits                   \* number of edit handlers run so far (history, bounds the model)

gridVars == <<tableRows, rowCount, columnCount>>
selVars  == <<selectedCells, isDragging, dragStart, dragHasMoved, lastClickCell, sinceLastClick>>
saveVars == <<lastSavedData, isSaving, savingTimers, writes, useAttributeData,
              rowCountAttribute, columnCountAttribute, statistics, ignoreAttributeUpdate>>
debounceVars == <<saveTimeout, debounceTimers, latestTableState, burst>>
hostVars == <<isUserInput, userInputTimers, dataLoaded, mountTimer, autoSave, mounted>>
vars == <<gridVars, selVars, saveVars, debounceVars, hostVars, lastEvent, gesture, edits>>

----------------------------------------------------------------------------
(* Bounds of the model *)

MaxEdits == 2
MaxGestures == 3

(* Program constants *)

MaxDimension   == 100
DoubleClickMs  == 350
DebounceMs     == 300
SavingResetMs  == 200
UserInputMs    == 100
MountDelayMs   == 100
DefaultCount   == 3

(* Inputs *)

Values        == {"a", "b"}
EditValues    == {"a"}
InitialCounts == {<<>>, <<1>>, <<2>>}
Durations     == {100}

----------------------------------------------------------------------------
(* Helpers *)

Min(S) == CHOOSE x \in S : \A y \in S : x <= y
Max(S) == CHOOSE x \in S : \A y \in S : x >= y

Truthy(id) == id # <<>>

AllCells(rows) ==
    UNION {{rows[i].cells[j] : j \in 1..Len(rows[i].cells)} : i \in 1..Len(rows)}

\* rows.map(r => r.cells.map(c => G(c))) with the position of the cell at hand
MapCells(rows, G(_, _, _)) ==
    [i \in 1..Len(rows) |->
        [rowIndex |-> rows[i].rowIndex,
         cells    |-> [j \in 1..Len(rows[i].cells) |-> G(i, j, rows[i].cells[j])]]]

----------------------------------------------------------------------------
(* Addressing *)

cellId(r, c) == <<r, c>>

parseCellId(id) == IF Len(id) < 2 THEN <<>> ELSE <<id[1], id[2]>>

buildRectSet(r1, c1, r2, c2) ==
    LET lowR == IF r1 <= r2 THEN r1 ELSE r2
        highR == IF r1 <= r2 THEN r2 ELSE r1
        lowC == IF c1 <= c2 THEN c1 ELSE c2
        highC == IF c1 <= c2 THEN c2 ELSE c1
    IN {cellId(r, c) : r \in lowR..highR, c \in lowC..highC}

createMergeId(r1, c1, r2, c2) == <<r1, c1, r2, c2>>

\* rows.find(r => r.rowIndex === rowIndex): position of the first match, 0 if none
RowPos(rows, r) ==
    LET S == {i \in 1..Len(rows) : rows[i].rowIndex = r}
    IN IF S = {} THEN 0 ELSE Min(S)

\* rows.find(...)?.cells.find(c => c.columnIndex === colIndex): <<i, j>>, <<>> if none
CellPos(rows, r, c) ==
    LET i == RowPos(rows, r)
    IN IF i = 0 THEN <<>>
       ELSE LET S == {j \in 1..Len(rows[i].cells) : rows[i].cells[j].columnIndex = c}
            IN IF S = {} THEN <<>> ELSE <<i, Min(S)>>

CellAt(rows, pos) == rows[pos[1]].cells[pos[2]]

\* a variant that gives up the whole selection when one of its ids resolves to
\* no cell
PositionsUnlessMiss(rows, sel) ==
    LET found == {CellPos(rows, parseCellId(id)[1], parseCellId(id)[2]) :
                     id \in {x \in sel : parseCellId(x) # <<>>}}
    IN IF <<>> \in found \/ \E x \in sel : parseCellId(x) = <<>> THEN {} ELSE found

\* the positions that the ids of a selection resolve to
Positions(rows, sel) ==
    {CellPos(rows, parseCellId(id)[1], parseCellId(id)[2]) :
        id \in {x \in sel : parseCellId(x) # <<>>}} \ {<<>>}

----------------------------------------------------------------------------
(* Grid document *)

DefaultCell(r, c) ==
    [id |-> cellId(r, c), sequenceNumber |-> "-", isBlocked |-> FALSE, isMerged |-> FALSE,
     mergeId |-> <<>>, isBlank |-> FALSE, rowIndex |-> r, columnIndex |-> c,
     checked |-> FALSE, rowSpan |-> 1, colSpan |-> 1, isHidden |-> FALSE]

NewRow(r, cols) == [rowIndex |-> r, cells |-> [c \in 1..cols |-> DefaultCell(r, c)]]

NewTable(rows, cols) == [r \in 1..rows |-> NewRow(r, cols)]

CellPositions(rows) ==
    UNION {{<<i, j>> : j \in 1..Len(rows[i].cells)} : i \in 1..Len(rows)}

updateCellStatistics(rows) ==
    [totalCells   |-> Cardinality(CellPositions(rows)),
     blockedCells |-> Cardinality({p \in CellPositions(rows) : CellAt(rows, p).isBlocked}),
     mergedCells  |-> Cardinality({p \in CellPositions(rows) :
                                     CellAt(rows, p).isMerged /\ ~CellAt(rows, p).isHidden})]

\* JSON.stringify({rows, columns, tableRows, metadata: {updatedAt}}); the n-th
\* document written carries the n-th timestamp
Document(rows, rc, cc, n) ==
    <<[rows |-> rc, columns |-> cc, tableRows |-> rows, updatedAt |-> n]>>

----------------------------------------------------------------------------
(* Edit operations on the rows (the updater functions given to setTableRows) *)

\* a variant that changes the addressed cell only
ValueChangedRowsOfCell(rows, r, c, v) ==
    LET pos == CellPos(rows, r, c)
    IN IF pos = <<>> THEN rows
       ELSE MapCells(rows, LAMBDA i, j, cl :
                IF <<i, j>> = pos THEN [cl EXCEPT !.sequenceNumber = v] ELSE cl)

ValueChangedRows(rows, r, c, v) ==
    LET pos == CellPos(rows, r, c)
    IN IF pos = <<>> THEN rows
       ELSE LET mid == CellAt(rows, pos).mergeId
            IN MapCells(rows, LAMBDA i, j, cl :
                   IF <<i, j>> = pos \/ (Truthy(mid) /\ cl.mergeId = mid)
                   THEN [cl EXCEPT !.sequenceNumber = v] ELSE cl)

\* a variant that toggles checked and leaves isBlocked as it is
CheckboxChangedRowsCheckedOnly(rows, r, c) ==
    LET pos == CellPos(rows, r, c)
    IN IF pos = <<>> THEN rows
       ELSE LET mid == CellAt(rows, pos).mergeId
                chk == ~CellAt(rows, pos).checked
            IN MapCells(rows, LAMBDA i, j, cl :
                   IF <<i, j>> = pos \/ (Truthy(mid) /\ cl.mergeId = mid)
                   THEN [cl EXCEPT !.checked = chk] ELSE cl)

CheckboxChangedRows(rows, r, c) ==
    LET pos == CellPos(rows, r, c)
    IN IF pos = <<>> THEN rows
       ELSE LET mid == CellAt(rows, pos).mergeId
                chk == ~CellAt(rows, pos).checked
            IN MapCells(rows, LAMBDA i, j, cl :
                   IF <<i, j>> = pos \/ (Truthy(mid) /\ cl.mergeId = mid)
                   THEN [cl EXCEPT !.checked = chk, !.isBlocked = chk] ELSE cl)

AddedRow(rows, n, cols) == Append(rows, NewRow(n, cols))

\* a variant that extends the first row only
AddedColumnToFirstRow(rows, n) ==
    [i \in 1..Len(rows) |->
        [rowIndex |-> rows[i].rowIndex,
         cells    |-> IF i = 1 THEN Append(rows[i].cells, DefaultCell(rows[i].rowIndex, n))
                      ELSE rows[i].cells]]

AddedColumn(rows, n) ==
    [i \in 1..Len(rows) |->
        [rowIndex |-> rows[i].rowIndex,
         cells    |-> Append(rows[i].cells, DefaultCell(rows[i].rowIndex, n))]]

\* the bounding box of the parsed selection
BoundingBox(sel) ==
    LET pos == {parseCellId(id) : id \in sel} \ {<<>>}
    IN [minRow |-> Min({p[1] : p \in pos}), maxRow |-> Max({p[1] : p \in pos}),
        minCol |-> Min({p[2] : p \in pos}), maxCol |-> Max({p[2] : p \in pos})]

BoxArea(b) == (b.maxRow - b.minRow + 1) * (b.maxCol - b.minCol + 1)

\* a variant that drops the second guard
MergeAdmittedBySize(sel) == ~(Cardinality(sel) < 2)

\* the two guards mergeCells passes before it touches the rows
MergeAdmitted(sel) ==
    /\ ~(Cardinality(sel) < 2)
    /\ ~(Cardinality(sel) # BoxArea(BoundingBox(sel)))

\* a variant that leaves the spans as they are
UnmergedKeepingSpans(cl) ==
    [cl EXCEPT !.isMerged = FALSE, !.isHidden = FALSE, !.mergeId = <<>>]

Unmerged(cl) ==
    [cl EXCEPT !.isMerged = FALSE, !.rowSpan = 1, !.colSpan = 1, !.isHidden = FALSE,
               !.mergeId = <<>>]

\* a variant whose loops stop short of the last cell of the box
BoxPositionsShort(rows, b) ==
    {CellPos(rows, r, c) : r \in b.minRow..b.maxRow, c \in b.minCol..b.maxCol}
        \ {<<>>, CellPos(rows, b.maxRow, b.maxCol)}

\* the positions the loops "for r = minRow..maxRow, for c = minCol..maxCol" find a cell at
BoxPositions(rows, b) ==
    {CellPos(rows, r, c) : r \in b.minRow..b.maxRow, c \in b.minCol..b.maxCol} \ {<<>>}

\* a variant that dissolves only the cells inside the box, leaving the rest of a
\* group that the box cuts through as it was
DissolvedInsideBoxOnly(rows, b) ==
    MapCells(rows, LAMBDA i, j, cl :
        IF <<i, j>> \in BoxPositions(rows, b) THEN Unmerged(cl) ELSE cl)

\* "Unmerge existing merges in area first"
DissolvedInBox(rows, b) ==
    LET old == {CellAt(rows, p).mergeId :
                   p \in {q \in BoxPositions(rows, b) :
                            CellAt(rows, q).isMerged /\ Truthy(CellAt(rows, q).mergeId)}}
    IN MapCells(rows, LAMBDA i, j, cl : IF cl.mergeId \in old THEN Unmerged(cl) ELSE cl)

\* a variant that leaves each cell the value it had
MergedCellKeepingValue(cl, b, topLeft) ==
    LET isAnchor == cl.rowIndex = b.minRow /\ cl.columnIndex = b.minCol
    IN [cl EXCEPT !.checked = topLeft.checked,
                  !.isBlocked = topLeft.isBlocked,
                  !.isMerged = TRUE,
                  !.mergeId = createMergeId(b.minRow, b.minCol, b.maxRow, b.maxCol),
                  !.rowSpan = IF isAnchor THEN b.maxRow - b.minRow + 1 ELSE 1,
                  !.colSpan = IF isAnchor THEN b.maxCol - b.minCol + 1 ELSE 1,
                  !.isHidden = ~isAnchor]

\* what the second loop of mergeCells writes into one cell of the box
MergedCell(cl, b, topLeft) ==
    LET isAnchor == cl.rowIndex = b.minRow /\ cl.columnIndex = b.minCol
    IN [cl EXCEPT !.sequenceNumber = topLeft.sequenceNumber,
                  !.checked = topLeft.checked,
                  !.isBlocked = topLeft.isBlocked,
                  !.isMerged = TRUE,
                  !.mergeId = createMergeId(b.minRow, b.minCol, b.maxRow, b.maxCol),
                  !.rowSpan = IF isAnchor THEN b.maxRow - b.minRow + 1 ELSE 1,
                  !.colSpan = IF isAnchor THEN b.maxCol - b.minCol + 1 ELSE 1,
                  !.isHidden = ~isAnchor]

\* TRUE when the updater of mergeCells finds the top-left cell
MergeFindsTopLeft(rows, b) == CellPos(rows, b.minRow, b.minCol) # <<>>

MergedRows(rows, b) ==
    LET d == DissolvedInBox(rows, b)
        tl == CellPos(d, b.minRow, b.minCol)
    IN IF tl = <<>> THEN rows
       ELSE MapCells(d, LAMBDA i, j, cl :
                IF <<i, j>> \in BoxPositions(d, b) THEN MergedCell(cl, b, CellAt(d, tl))
                ELSE cl)

\* the merge ids unmergeCells collects from the selection
SelectedMergeIds(rows, sel) ==
    {CellAt(rows, p).mergeId :
        p \in {q \in Positions(rows, sel) :
                 CellAt(rows, q).isMerged /\ Truthy(CellAt(rows, q).mergeId)}}

\* a variant that resets the selected cells only
UnmergedRowsOfSelection(rows, sel) ==
    MapCells(rows, LAMBDA i, j, cl :
        IF <<i, j>> \in Positions(rows, sel) THEN Unmerged(cl) ELSE cl)

UnmergedRows(rows, sel) ==
    LET mids == SelectedMergeIds(rows, sel)
    IN MapCells(rows, LAMBDA i, j, cl : IF cl.mergeId \in mids THEN Unmerged(cl) ELSE cl)

\* a variant that sets the flag on the selected cells only
BlankedRowsOfSelection(rows, sel, flag) ==
    MapCells(rows, LAMBDA i, j, cl :
        IF <<i, j>> \in Positions(rows, sel) THEN [cl EXCEPT !.isBlank = flag] ELSE cl)

\* a variant that flips isBlank where the flag is to be set
BlankedRowsFlipping(rows, sel, flag) ==
    LET hit == Positions(rows, sel)
        mids == {CellAt(rows, p).mergeId : p \in hit} \ {<<>>}
    IN MapCells(rows, LAMBDA i, j, cl :
           IF <<i, j>> \in hit \/ cl.mergeId \in mids
           THEN [cl EXCEPT !.isBlank = IF flag THEN ~cl.isBlank ELSE FALSE] ELSE cl)

\* blankCells (flag = TRUE) and unblankCells (flag = FALSE)
BlankedRows(rows, sel, flag) ==
    LET hit == Positions(rows, sel)
        mids == {CellAt(rows, p).mergeId : p \in hit} \ {<<>>}
    IN MapCells(rows, LAMBDA i, j, cl :
           IF <<i, j>> \in hit \/ cl.mergeId \in mids
           THEN [cl EXCEPT !.isBlank = flag] ELSE cl)

\* a variant that takes the hidden cells too
EveryId(rows) == {cl.id : cl \in AllCells(rows)}

\* selectAllCells
VisibleIds(rows) == {cl.id : cl \in {x \in AllCells(rows) : ~x.isHidden}}

----------------------------------------------------------------------------
(* Persistence bridge *)

\* what saveToBackend(rows, rc, cc) leaves in the refs, the state and the host
\* attributes, as the w+1-st write, with the isSaving timers that are pending
saveToBackend(rows, rc, cc, w, timers) ==
    [lastSavedData         |-> Document(rows, rc, cc, w + 1),
     isSaving              |-> TRUE,
     savingTimers          |-> timers \cup {SavingResetMs},
     writes                |-> w + 1,
     useAttributeData      |-> Document(rows, rc, cc, w + 1),
     rowCountAttribute     |-> <<rc>>,
     columnCountAttribute  |-> <<cc>>,
     statistics            |-> <<updateCellStatistics(rows)>>,
     ignoreAttributeUpdate |-> TRUE]

\* the same record for a handler that does not save
Unsaved ==
    [lastSavedData         |-> lastSavedData,
     isSaving              |-> isSaving,
     savingTimers          |-> savingTimers,
     writes                |-> writes,
     useAttributeData      |-> useAttributeData,
     rowCountAttribute     |-> rowCountAttribute,
     columnCountAttribute  |-> columnCountAttribute,
     statistics            |-> statistics,
     ignoreAttributeUpdate |-> ignoreAttributeUpdate]

\* the test both attribute effects make before they call setRowCount / setColumnCount
AttributeApplies(attr, count, userInput) ==
    /\ attr # <<>>
    /\ attr[1] > 0
    /\ attr[1] <= MaxDimension
    /\ attr[1] # count
    /\ ~userInput

\* the rowCountAttribute effect and then the columnCountAttribute effect, each run
\* when its dependencies changed; both consume the one ignoreAttributeUpdate flag
AttributeEffects(ig, rca, cca, rc, cc, userInput, rowChanged, colChanged) ==
    LET ig1 == IF rowChanged /\ ig THEN FALSE ELSE ig
        rc1 == IF rowChanged /\ ~ig /\ AttributeApplies(rca, rc, userInput) THEN rca[1] ELSE rc
        ig2 == IF colChanged /\ ig1 THEN FALSE ELSE ig1
        cc1 == IF colChanged /\ ~ig1 /\ AttributeApplies(cca, cc, userInput) THEN cca[1] ELSE cc
    IN [ignore |-> ig2, rowCount |-> rc1, columnCount |-> cc1]

\* the end of a handler's step: the rows, counts and bridge record it produced,
\* followed by the attribute effects and the statistics effect on [tableRows]
Commit(rows, rc, cc, s, userInput) ==
    LET e == AttributeEffects(s.ignoreAttributeUpdate, s.rowCountAttribute,
                              s.columnCountAttribute, rc, cc, userInput,
                              s.rowCountAttribute # rowCountAttribute \/ rc # rowCount,
                              s.columnCountAttribute # columnCountAttribute \/ cc # columnCount)
    IN /\ tableRows' = rows
       /\ rowCount' = e.rowCount
       /\ columnCount' = e.columnCount
       /\ lastSavedData' = s.lastSavedData
       /\ isSaving' = s.isSaving
       /\ savingTimers' = s.savingTimers
       /\ writes' = s.writes
       /\ useAttributeData' = s.useAttributeData
       /\ rowCountAttribute' = s.rowCountAttribute
       /\ columnCountAttribute' = s.columnCountAttribute
       /\ statistics' = IF rows # tableRows /\ Len(rows) > 0
                        THEN <<updateCellStatistics(rows)>> ELSE s.statistics
       /\ ignoreAttributeUpdate' = e.ignore

----------------------------------------------------------------------------
(* History of the value changes and of the pointer gesture *)

NoBurst == [calls |-> 0, since |-> DebounceMs, writes |-> 0]

NoGesture ==
    [emptyBefore |-> FALSE, clearBefore |-> FALSE, heldBefore |-> FALSE, moved |-> FALSE,
     run |-> 0, runClear |-> FALSE, count |-> 0]

\* the ids of the cells that share the merge id of the cell `id` names, or {id}
GroupIds(rows, id) ==
    LET pos == CellPos(rows, id[1], id[2])
    IN IF pos = <<>> \/ ~Truthy(CellAt(rows, pos).mergeId) THEN {id}
       ELSE {cl.id : cl \in {x \in AllCells(rows) : x.mergeId = CellAt(rows, pos).mergeId}}

----------------------------------------------------------------------------
(* Initial states *)

getInitialRows(attr) == IF attr # <<>> THEN attr[1] ELSE DefaultCount

getInitialColumns(attr) == IF attr # <<>> THEN attr[1] ELSE DefaultCount

\* the component after its first render over count attributes the host holds,
\* no document supplied by the host
FirstRender(rowAttributes, columnAttributes) ==
    /\ rowCountAttribute \in rowAttributes
    /\ columnCountAttribute \in columnAttributes
    /\ autoSave \in BOOLEAN
    /\ mounted = TRUE
    /\ rowCount = getInitialRows(rowCountAttribute)
    /\ columnCount = getInitialColumns(columnCountAttribute)
    /\ tableRows = <<>>
    /\ selectedCells = {}
    /\ isDragging = FALSE
    /\ dragStart = <<>>
    /\ dragHasMoved = FALSE
    /\ lastClickCell = <<>>
    /\ sinceLastClick = DoubleClickMs
    /\ lastSavedData = <<>>
    /\ isSaving = FALSE
    /\ savingTimers = {}
    /\ saveTimeout = <<>>
    /\ debounceTimers = {}
    /\ latestTableState = <<>>
    /\ burst = NoBurst
    /\ writes = 0
    /\ useAttributeData = <<>>
    /\ statistics = <<>>
    /\ ignoreAttributeUpdate = FALSE
    /\ isUserInput = FALSE
    /\ userInputTimers = {}
    /\ dataLoaded = FALSE
    /\ mountTimer = <<MountDelayMs, rowCount, columnCount>>
    /\ lastEvent = "render"
    /\ gesture = NoGesture
    /\ edits = 0

Init == FirstRender(InitialCounts, InitialCounts)

----------------------------------------------------------------------------
(* Grid creation and growth *)

\* createNewTable(rows, cols), reached from the mount timer and from applyDimensions
createNewTable(rows, cols, event) ==
    /\ lastEvent' = event
    /\ IF rows <= 0 \/ cols <= 0
       THEN /\ mountTimer' = <<>>
            /\ UNCHANGED <<gridVars, saveVars, selectedCells, dataLoaded>>
       ELSE /\ Commit(NewTable(rows, cols), rowCount, columnCount,
                      saveToBackend(NewTable(rows, cols), rows, cols, writes, savingTimers),
                      isUserInput)
            /\ selectedCells' = {}
            /\ dataLoaded' = TRUE
            /\ mountTimer' = <<>>
    /\ UNCHANGED <<isDragging, dragStart, dragHasMoved, lastClickCell, sinceLastClick,
                   debounceVars, isUserInput, userInputTimers, autoSave, mounted>>

\* the callback of the mount effect's timer; the effect is set up once, so the
\* callback sees dataLoaded = false, tableRows = [] and the counts of the first render
MountTimerFires ==
    /\ mountTimer # <<>>
    /\ mountTimer[1] = 0
    /\ createNewTable(mountTimer[2], mountTimer[3], "mount")
    /\ UNCHANGED edits

\* the Generate Table button
applyDimensions ==
    /\ edits < MaxEdits
    /\ edits' = edits + 1
    /\ IF rowCount <= 0 \/ columnCount <= 0 \/ rowCount > MaxDimension \/ columnCount > MaxDimension
       THEN /\ lastEvent' = "applyDimensionsRejected"
                    /\ UNCHANGED <<gridVars, selVars, saveVars, debounceVars, hostVars>>
       ELSE createNewTable(rowCount, columnCount, "applyDimensions")

addRow ==
    /\ edits < MaxEdits
    /\ edits' = edits + 1
    /\ LET n == rowCount + 1
       IN IF n > MaxDimension
          THEN /\ lastEvent' = "addRowRejected"
               /\ UNCHANGED <<gridVars, saveVars, isUserInput, userInputTimers>>
          ELSE /\ lastEvent' = "addRow"
               /\ isUserInput' = TRUE
               /\ userInputTimers' = userInputTimers \cup {UserInputMs}
               /\ Commit(AddedRow(tableRows, n, columnCount), n, columnCount,
                         saveToBackend(AddedRow(tableRows, n, columnCount), n, columnCount,
                                       writes, savingTimers),
                         TRUE)
    /\ UNCHANGED <<selVars, debounceVars, dataLoaded, mountTimer, autoSave, mounted>>

addColumn ==
    /\ edits < MaxEdits
    /\ edits' = edits + 1
    /\ LET n == columnCount + 1
       IN IF n > MaxDimension
          THEN /\ lastEvent' = "addColumnRejected"
               /\ UNCHANGED <<gridVars, saveVars, isUserInput, userInputTimers>>
          ELSE /\ lastEvent' = "addColumn"
               /\ isUserInput' = TRUE
               /\ userInputTimers' = userInputTimers \cup {UserInputMs}
               /\ Commit(AddedColumn(tableRows, n), rowCount, n,
                         saveToBackend(AddedColumn(tableRows, n), rowCount, n,
                                       writes, savingTimers),
                         TRUE)
    /\ UNCHANGED <<selVars, debounceVars, dataLoaded, mountTimer, autoSave, mounted>>

----------------------------------------------------------------------------
(* Content edits *)

\* a variant that lets a pending timer run on
KeptTimer(timer) == IF timer # <<>> THEN timer ELSE <<DebounceMs>>

\* clearTimeout(saveTimeoutRef.current), then setTimeout(..., 300)
RestartedTimer(timer) == <<DebounceMs>>

\* a variant of clearTimeout that clears nothing
ClearedNothing(timers, ref) == timers

\* the scheduled callbacks after "if (saveTimeoutRef.current) clearTimeout(saveTimeoutRef.current)"
ClearedTimers(timers, ref) == IF ref = <<>> THEN timers ELSE timers \ {ref[1]}

\* the text input of a rendered cell changed to v
handleCellValueChange(r, c, v) ==
    /\ edits < MaxEdits
    /\ edits' = edits + 1
    /\ IF CellPos(tableRows, r, c) = <<>>
       THEN /\ lastEvent' = "valueChangeMissed"
            /\ UNCHANGED <<gridVars, saveVars, debounceVars>>
       ELSE /\ lastEvent' = "valueChange"
            /\ Commit(ValueChangedRows(tableRows, r, c, v), rowCount, columnCount,
                      [Unsaved EXCEPT !.statistics =
                          <<updateCellStatistics(ValueChangedRows(tableRows, r, c, v))>>],
                      isUserInput)
            /\ latestTableState' = <<[rows |-> ValueChangedRows(tableRows, r, c, v),
                                      rowCount |-> rowCount, columnCount |-> columnCount]>>
            /\ saveTimeout' = IF autoSave THEN RestartedTimer(saveTimeout) ELSE saveTimeout
            /\ debounceTimers' = IF autoSave
                                 THEN ClearedTimers(debounceTimers, saveTimeout) \cup {DebounceMs}
                                 ELSE debounceTimers
            /\ burst' = IF burst.calls > 0 /\ burst.since < DebounceMs
                        THEN [burst EXCEPT !.calls = burst.calls + 1, !.since = 0]
                        ELSE [calls |-> 1, since |-> 0, writes |-> writes]
    /\ UNCHANGED <<selVars, hostVars>>

\* the checkbox of a rendered cell was toggled
handleCheckboxChange(r, c) ==
    /\ edits < MaxEdits
    /\ edits' = edits + 1
    /\ IF CellPos(tableRows, r, c) = <<>>
       THEN /\ lastEvent' = "checkboxMissed"
            /\ UNCHANGED <<gridVars, saveVars>>
       ELSE /\ lastEvent' = "checkbox"
            /\ Commit(CheckboxChangedRows(tableRows, r, c), rowCount, columnCount,
                      IF autoSave
                      THEN saveToBackend(CheckboxChangedRows(tableRows, r, c), rowCount,
                                         columnCount, writes, savingTimers)
                      ELSE [Unsaved EXCEPT !.statistics =
                               <<updateCellStatistics(CheckboxChangedRows(tableRows, r, c))>>],
                      isUserInput)
    /\ UNCHANGED <<selVars, debounceVars, hostVars>>

----------------------------------------------------------------------------
(* Merge, unmerge, blank, unblank, select all, clear selection *)

mergeCells ==
    /\ edits < MaxEdits
    /\ edits' = edits + 1
    /\ IF ~MergeAdmitted(selectedCells)
       THEN /\ lastEvent' = "mergeRejected"
            /\ UNCHANGED <<gridVars, saveVars, selectedCells>>
       ELSE LET b == BoundingBox(selectedCells)
            IN /\ lastEvent' = IF MergeFindsTopLeft(tableRows, b) THEN "merge"
                              ELSE "mergeNoTopLeft"
               /\ IF MergeFindsTopLeft(tableRows, b)
                  THEN Commit(MergedRows(tableRows, b), rowCount, columnCount,
                              saveToBackend(MergedRows(tableRows, b), rowCount, columnCount,
                                            writes, savingTimers),
                              isUserInput)
                  ELSE UNCHANGED <<gridVars, saveVars>>
               /\ selectedCells' = {cellId(b.minRow, b.minCol)}
    /\ UNCHANGED <<isDragging, dragStart, dragHasMoved, lastClickCell, sinceLastClick,
                   debounceVars, hostVars>>

unmergeCells ==
    /\ edits < MaxEdits
    /\ edits' = edits + 1
    /\ IF selectedCells = {} \/ SelectedMergeIds(tableRows, selectedCells) = {}
       THEN /\ lastEvent' = "unmergeNothing"
            /\ UNCHANGED <<gridVars, saveVars>>
       ELSE /\ lastEvent' = "unmerge"
            /\ Commit(UnmergedRows(tableRows, selectedCells), rowCount, columnCount,
                      saveToBackend(UnmergedRows(tableRows, selectedCells), rowCount,
                                    columnCount, writes, savingTimers),
                      isUserInput)
    /\ UNCHANGED <<selVars, debounceVars, hostVars>>

\* blankCells (flag = TRUE) and unblankCells (flag = FALSE) differ in the flag only
SetBlank(flag, done, nothing) ==
    /\ edits < MaxEdits
    /\ edits' = edits + 1
    /\ IF selectedCells = {}
       THEN /\ lastEvent' = nothing
            /\ UNCHANGED <<gridVars, saveVars, selectedCells>>
       ELSE /\ lastEvent' = done
            /\ Commit(BlankedRows(tableRows, selectedCells, flag), rowCount, columnCount,
                      saveToBackend(BlankedRows(tableRows, selectedCells, flag), rowCount,
                                    columnCount, writes, savingTimers),
                      isUserInput)
            /\ selectedCells' = {}
    /\ UNCHANGED <<isDragging, dragStart, dragHasMoved, lastClickCell, sinceLastClick,
                   debounceVars, hostVars>>

blankCells == SetBlank(TRUE, "blank", "blankNothing")

unblankCells == SetBlank(FALSE, "unblank", "unblankNothing")

selectAllCells ==
    /\ selectedCells' = VisibleIds(tableRows)
    /\ lastEvent' = "selectAll"
    /\ UNCHANGED <<gridVars, isDragging, dragStart, dragHasMoved, lastClickCell, sinceLastClick,
                   saveVars, debounceVars, hostVars, edits>>

\* the Clear Selection button
clearSelection ==
    /\ selectedCells' = {}
    /\ lastEvent' = "clearSelection"
    /\ UNCHANGED <<gridVars, isDragging, dragStart, dragHasMoved, lastClickCell, sinceLastClick,
                   saveVars, debounceVars, hostVars, edits>>

----------------------------------------------------------------------------
(* Pointer-driven selection *)

\* the cells a pointer can be over: the rendered <td data-cellid>, or none (<<>>)
PointerTargets == VisibleIds(tableRows) \cup {<<>>}

\* a variant without the return for a press on a checkbox
onPointerDownThroughCheckbox(target, primaryButton, onCheckbox) ==
    /\ IF ~primaryButton \/ target = <<>>
       THEN /\ lastEvent' = "pointerDownIgnored"
            /\ UNCHANGED selVars
       ELSE /\ lastEvent' = IF onCheckbox THEN "pointerDownOnCheckbox" ELSE "pointerDown"
            /\ isDragging' = TRUE
            /\ dragStart' = parseCellId(target)
            /\ dragHasMoved' = FALSE
            /\ selectedCells' = {target}
            /\ UNCHANGED <<lastClickCell, sinceLastClick>>
    /\ UNCHANGED <<gridVars, saveVars, debounceVars, hostVars, edits>>

\* the label tells the return for a press on a checkbox from the two other returns
onPointerDown(target, primaryButton, onCheckbox) ==
    /\ IF ~primaryButton \/ onCheckbox \/ target = <<>>
       THEN /\ lastEvent' = IF primaryButton /\ onCheckbox THEN "pointerDownOnCheckbox"
                             ELSE "pointerDownIgnored"
            /\ UNCHANGED selVars
       ELSE /\ lastEvent' = "pointerDown"
            /\ isDragging' = TRUE
            /\ dragStart' = parseCellId(target)
            /\ dragHasMoved' = FALSE
            /\ selectedCells' = {target}
            /\ UNCHANGED <<lastClickCell, sinceLastClick>>
    /\ UNCHANGED <<gridVars, saveVars, debounceVars, hostVars, edits>>

onPointerMove(target) ==
    /\ IF ~isDragging \/ dragStart = <<>> \/ target = <<>>
       THEN /\ lastEvent' = "pointerMoveIgnored"
            /\ UNCHANGED selVars
       ELSE /\ lastEvent' = "pointerMove"
            /\ dragHasMoved' = (dragHasMoved \/ parseCellId(target) # dragStart)
            /\ selectedCells' = buildRectSet(dragStart[1], dragStart[2],
                                             parseCellId(target)[1], parseCellId(target)[2])
            /\ UNCHANGED <<isDragging, dragStart, lastClickCell, sinceLastClick>>
    /\ UNCHANGED <<gridVars, saveVars, debounceVars, hostVars, edits>>

\* the test onPointerUp makes on the two last-click refs
IsDoubleClick(id) == sinceLastClick < DoubleClickMs /\ lastClickCell = id

\* "Single click -> toggle this cell in the selection"
ToggledSelection(sel, id) == IF id \in sel THEN sel \ {id} ELSE sel \cup {id}

\* the selection handleDoubleClickSelect(r, c) leaves
handleDoubleClickSelect(rows, sel, r, c) ==
    LET pos == CellPos(rows, r, c)
    IN IF pos # <<>> /\ CellAt(rows, pos).isMerged /\ Truthy(CellAt(rows, pos).mergeId)
       THEN LET groupIds == {cl.id : cl \in {x \in AllCells(rows) :
                                               x.mergeId = CellAt(rows, pos).mergeId}}
            IN IF groupIds \cap sel # {} THEN sel \ groupIds ELSE sel \cup groupIds
       ELSE ToggledSelection(sel, cellId(r, c))

\* the selection a click that ends at pointerup leaves
ClickSelection(rows, sel, start) ==
    IF IsDoubleClick(cellId(start[1], start[2]))
    THEN handleDoubleClickSelect(rows, sel, start[1], start[2])
    ELSE ToggledSelection(sel, cellId(start[1], start[2]))

onPointerUp ==
    /\ IF ~isDragging
       THEN /\ lastEvent' = "pointerUpIgnored"
            /\ UNCHANGED selVars
       ELSE /\ isDragging' = FALSE
            /\ dragStart' = <<>>
            /\ dragHasMoved' = FALSE
            /\ IF ~dragHasMoved /\ dragStart # <<>>
               THEN LET id == cellId(dragStart[1], dragStart[2])
                    IN /\ lastEvent' = IF IsDoubleClick(id) THEN "doubleClick" ELSE "click"
                       /\ lastClickCell' = id
                       /\ sinceLastClick' = 0
                       /\ selectedCells' = ClickSelection(tableRows, selectedCells, dragStart)
               ELSE /\ lastEvent' = "dragEnd"
                    /\ UNCHANGED <<selectedCells, lastClickCell, sinceLastClick>>
    /\ UNCHANGED <<gridVars, saveVars, debounceVars, hostVars, edits>>

\* a variant that leaves dragStartRef as it is
onPointerCancelKeepsStart ==
    /\ isDragging' = FALSE
    /\ dragHasMoved' = FALSE
    /\ lastEvent' = IF isDragging THEN "pointerCancel" ELSE "pointerCancelIdle"
    /\ UNCHANGED <<dragStart, selectedCells, lastClickCell, sinceLastClick>>
    /\ UNCHANGED <<gridVars, saveVars, debounceVars, hostVars, edits>>

\* the label tells a cancelled press from a pointercancel that found no press
onPointerCancel ==
    /\ isDragging' = FALSE
    /\ dragStart' = <<>>
    /\ dragHasMoved' = FALSE
    /\ lastEvent' = IF isDragging THEN "pointerCancel" ELSE "pointerCancelIdle"
    /\ UNCHANGED <<selectedCells, lastClickCell, sinceLastClick>>
    /\ UNCHANGED <<gridVars, saveVars, debounceVars, hostVars, edits>>

\* the longest run of rapid clicks the history tells apart
MaxRun == 4

\* History: what the step just taken adds to the record of the gesture.
\*   emptyBefore, clearBefore: at the last pointerdown the selection was empty,
\*     held no cell of the cell's merge group;
\*   heldBefore: at the last pointerdown the selection held the pressed cell;
\*   moved: a pointermove has been handled since the last pointerdown;
\*   run: the clicks so far of the run of clicks on one cell, each within
\*     DoubleClickMs of the one before; runClear: clearBefore of its first click;
\*   count: the pointerdowns handled so far.
GestureHistory ==
    gesture' =
        CASE lastEvent' = "pointerDown" ->
                 [gesture EXCEPT
                     !.emptyBefore = (selectedCells = {}),
                     !.clearBefore = (GroupIds(tableRows, cellId(dragStart'[1], dragStart'[2]))
                                          \cap selectedCells = {}),
                     !.heldBefore = (cellId(dragStart'[1], dragStart'[2]) \in selectedCells),
                     !.moved = FALSE,
                     !.count = gesture.count + 1]
          [] lastEvent' = "pointerMove" -> [gesture EXCEPT !.moved = TRUE]
          [] lastEvent' = "doubleClick" /\ gesture.run >= 1 ->
                 [gesture EXCEPT !.run = IF gesture.run < MaxRun THEN gesture.run + 1
                                         ELSE MaxRun]
          [] lastEvent' = "click" \/ (lastEvent' = "doubleClick" /\ gesture.run = 0) ->
                 [gesture EXCEPT !.run = 1, !.runClear = gesture.clearBefore]
          [] lastEvent' \in {"dragEnd", "pointerCancel", "pointerCancelIdle"} ->
                 [gesture EXCEPT !.run = 0, !.runClear = FALSE]
          [] lastEvent' \in {"pointerDownIgnored", "pointerDownOnCheckbox",
                             "pointerMoveIgnored", "pointerUpIgnored",
                             "tick", "savingReset", "userInputReset", "debounceSave"} -> gesture
          [] OTHER -> [NoGesture EXCEPT !.count = gesture.count]

----------------------------------------------------------------------------
(* Loading a document the host supplies *)

\* one cell of validatedRows
LoadedCell(cl, r, c) ==
    [id |-> cellId(r, c),
     sequenceNumber |-> IF cl.sequenceNumber = "" THEN "-" ELSE cl.sequenceNumber,
     isBlocked |-> cl.isBlocked, isMerged |-> cl.isMerged, mergeId |-> cl.mergeId,
     isBlank |-> cl.isBlank, rowIndex |-> r, columnIndex |-> c, checked |-> cl.checked,
     rowSpan |-> IF cl.rowSpan = 0 THEN 1 ELSE cl.rowSpan,
     colSpan |-> IF cl.colSpan = 0 THEN 1 ELSE cl.colSpan,
     isHidden |-> cl.isHidden]

\* tableData.tableRows.map((row, idx) => ...)
LoadedRows(rows) ==
    [i \in 1..Len(rows) |->
        [rowIndex |-> i,
         cells    |-> [j \in 1..Len(rows[i].cells) |-> LoadedCell(rows[i].cells[j], i, j)]]]

\* A document is the object JSON.parse returns, a record of the keys it holds; a
\* text that JSON.parse throws on is the record [text |-> ...] of none of them.

\* a variant that does not look at the declared columns
DocumentAcceptedByRows(d) ==
    /\ {"tableRows", "rows", "columns"} \subseteq DOMAIN d
    /\ d.rows > 0

\* tableData.tableRows && tableData.rows > 0 && tableData.columns > 0
DocumentAccepted(d) ==
    /\ {"tableRows", "rows", "columns"} \subseteq DOMAIN d
    /\ d.rows > 0
    /\ d.columns > 0

\* row.cells.map(...) throws on a row without cells, before any state is set
RowsMappable(d) == \A i \in 1..Len(d.tableRows) : "cells" \in DOMAIN d.tableRows[i]

\* a variant without the comparison with lastSavedDataRef
LoadOutcomeWithoutEcho(saving, incoming, saved) ==
    IF saving THEN "saving"
    ELSE IF incoming = <<>> THEN "empty"
    ELSE IF DocumentAccepted(incoming[1]) /\ RowsMappable(incoming[1]) THEN "load"
    ELSE "rejected"

\* what a run of the load effect does with the document the host holds:
\* "saving", "echo", "empty", "rejected" leave the component alone, "load" replaces the grid
LoadOutcome(saving, incoming, saved) ==
    IF saving THEN "saving"
    ELSE IF incoming = saved /\ saved # <<>> THEN "echo"
    ELSE IF incoming = <<>> THEN "empty"
    ELSE IF DocumentAccepted(incoming[1]) /\ RowsMappable(incoming[1]) THEN "load"
    ELSE "rejected"

\* a variant that leaves the selection as it is
LoadDocumentKeepingSelection(incoming, timers) ==
    /\ Commit(LoadedRows(incoming[1].tableRows), incoming[1].rows, incoming[1].columns,
              [lastSavedData         |-> incoming,
               isSaving              |-> FALSE,
               savingTimers          |-> timers,
               writes                |-> writes,
               useAttributeData      |-> incoming,
               rowCountAttribute     |-> <<incoming[1].rows>>,
               columnCountAttribute  |-> <<incoming[1].columns>>,
               statistics            |-> <<updateCellStatistics(LoadedRows(incoming[1].tableRows))>>,
               ignoreAttributeUpdate |-> TRUE],
              isUserInput)
    /\ selectedCells' = selectedCells
    /\ dataLoaded' = TRUE
    /\ mountTimer' = <<>>

\* the body of the load effect when it accepts the document, with the attribute
\* effects and the statistics effect that follow it
LoadDocument(incoming, timers) ==
    /\ Commit(LoadedRows(incoming[1].tableRows), incoming[1].rows, incoming[1].columns,
              [lastSavedData         |-> incoming,
               isSaving              |-> FALSE,
               savingTimers          |-> timers,
               writes                |-> writes,
               useAttributeData      |-> incoming,
               rowCountAttribute     |-> <<incoming[1].rows>>,
               columnCountAttribute  |-> <<incoming[1].columns>>,
               statistics            |-> <<updateCellStatistics(LoadedRows(incoming[1].tableRows))>>,
               ignoreAttributeUpdate |-> TRUE],
              isUserInput)
    /\ selectedCells' = {}
    /\ dataLoaded' = TRUE
    /\ mountTimer' = <<>>

\* documents a host can hold that the component did not write: a 1 x 2 grid with
\* an empty value, one that declares no rows, one that declares no columns, a
\* text that is not JSON, one without tableRows, and one whose row has no cells
ExternalDocuments ==
    {<<[rows |-> 1, columns |-> 2,
        tableRows |-> <<[rowIndex |-> 1,
                         cells |-> <<[DefaultCell(1, 1) EXCEPT !.sequenceNumber = ""],
                                     [DefaultCell(1, 2) EXCEPT !.sequenceNumber = "b"]>>]>>,
        updatedAt |-> 0]>>,
     <<[rows |-> 0, columns |-> 0, tableRows |-> <<>>, updatedAt |-> 0]>>,
     <<[rows |-> 1, columns |-> 0,
        tableRows |-> <<[rowIndex |-> 1, cells |-> <<>>]>>, updatedAt |-> 0]>>,
     <<[text |-> "{"]>>,
     <<[rows |-> 1, columns |-> 1, updatedAt |-> 0]>>,
     <<[rows |-> 1, columns |-> 1, tableRows |-> <<[rowIndex |-> 1]>>, updatedAt |-> 0]>>}

\* the host replaces the value of useAttributeData; the load effect runs
HostSetsDocument(doc) ==
    /\ edits < MaxEdits
    /\ edits' = edits + 1
    /\ doc # useAttributeData
    /\ LET outcome == LoadOutcome(isSaving, doc, lastSavedData)
       IN /\ lastEvent' = IF outcome = "load" THEN "load" ELSE "hostDocumentIgnored"
          /\ IF outcome = "load"
             THEN LoadDocument(doc, savingTimers)
             ELSE /\ useAttributeData' = doc
                  /\ UNCHANGED <<gridVars, lastSavedData, isSaving, savingTimers, writes,
                                 rowCountAttribute, columnCountAttribute, statistics,
                                 ignoreAttributeUpdate, selectedCells, dataLoaded, mountTimer>>
    /\ UNCHANGED <<isDragging, dragStart, dragHasMoved, lastClickCell, sinceLastClick,
                   debounceVars, isUserInput, userInputTimers, autoSave, mounted>>

\* the values a host gives the count attributes
HostCounts == {1, 2, 3}

\* the host changes rowCountAttribute; the effect on [rowCountAttribute.value, rowCount]
\* runs.  (The load effect runs as well and finds the document it has already seen.)
HostSetsRowCount(v) ==
    /\ edits < MaxEdits
    /\ edits' = edits + 1
    /\ rowCountAttribute # <<v>>
    /\ LET e == AttributeEffects(ignoreAttributeUpdate, <<v>>, columnCountAttribute,
                                 rowCount, columnCount, isUserInput, TRUE, FALSE)
       IN /\ rowCountAttribute' = <<v>>
          /\ rowCount' = e.rowCount
          /\ ignoreAttributeUpdate' = e.ignore
          /\ lastEvent' = IF e.rowCount # rowCount THEN "hostRowCount" ELSE "hostRowCountIgnored"
    /\ UNCHANGED <<tableRows, columnCount, selVars, lastSavedData, isSaving, savingTimers,
                   writes, useAttributeData, columnCountAttribute, statistics, debounceVars,
                   hostVars>>

\* the host changes columnCountAttribute; the effect on
\* [columnCountAttribute.value, columnCount] runs
HostSetsColumnCount(v) ==
    /\ edits < MaxEdits
    /\ edits' = edits + 1
    /\ columnCountAttribute # <<v>>
    /\ LET e == AttributeEffects(ignoreAttributeUpdate, rowCountAttribute, <<v>>,
                                 rowCount, columnCount, isUserInput, FALSE, TRUE)
       IN /\ columnCountAttribute' = <<v>>
          /\ columnCount' = e.columnCount
          /\ ignoreAttributeUpdate' = e.ignore
          /\ lastEvent' = IF e.columnCount # columnCount THEN "hostColumnCount"
                          ELSE "hostColumnCountIgnored"
    /\ UNCHANGED <<tableRows, rowCount, selVars, lastSavedData, isSaving, savingTimers,
                   writes, useAttributeData, rowCountAttribute, statistics, debounceVars,
                   hostVars>>

----------------------------------------------------------------------------
(* Time and timers *)

\* the timers that are pending, as their times left
PendingTimers ==
    savingTimers \cup userInputTimers
        \cup debounceTimers
        \cup (IF mountTimer = <<>> THEN {} ELSE {mountTimer[1]})

\* d ms pass; a timer that is due fires before time moves on
Tick(d) ==
    /\ \A t \in PendingTimers : t >= d
    /\ PendingTimers # {} \/ sinceLastClick < DoubleClickMs \/ burst.since < DebounceMs
    /\ savingTimers' = {t - d : t \in savingTimers}
    /\ userInputTimers' = {t - d : t \in userInputTimers}
    /\ saveTimeout' = IF saveTimeout = <<>> THEN <<>> ELSE <<saveTimeout[1] - d>>
    /\ debounceTimers' = {t - d : t \in debounceTimers}
    /\ mountTimer' = IF mountTimer = <<>> THEN <<>>
                     ELSE <<mountTimer[1] - d, mountTimer[2], mountTimer[3]>>
    /\ sinceLastClick' = IF sinceLastClick + d < DoubleClickMs THEN sinceLastClick + d
                         ELSE DoubleClickMs
    /\ burst' = [burst EXCEPT !.since = IF burst.since + d < DebounceMs THEN burst.since + d
                                        ELSE DebounceMs]
    /\ lastEvent' = "tick"
    /\ UNCHANGED <<gridVars, selectedCells, isDragging, dragStart, dragHasMoved, lastClickCell,
                   lastSavedData, isSaving, writes, useAttributeData, rowCountAttribute,
                   columnCountAttribute, statistics, ignoreAttributeUpdate, latestTableState,
                   isUserInput, dataLoaded, autoSave, mounted, edits>>

\* setTimeout(() => setIsSaving(false), 200) of saveToBackend; the load effect,
\* which depends on isSaving, runs when this changes isSaving
SavingTimerFires ==
    /\ 0 \in savingTimers
    /\ LET outcome == IF isSaving THEN LoadOutcome(FALSE, useAttributeData, lastSavedData)
                      ELSE "saving"
       IN /\ lastEvent' = IF outcome = "load" THEN "load" ELSE "savingReset"
          /\ IF outcome = "load"
             THEN LoadDocument(useAttributeData, savingTimers \ {0})
             ELSE /\ isSaving' = FALSE
                  /\ savingTimers' = savingTimers \ {0}
                  /\ UNCHANGED <<gridVars, lastSavedData, writes, useAttributeData,
                                 rowCountAttribute, columnCountAttribute, statistics,
                                 ignoreAttributeUpdate, selectedCells, dataLoaded, mountTimer>>
    /\ UNCHANGED <<isDragging, dragStart, dragHasMoved, lastClickCell, sinceLastClick,
                   debounceVars, isUserInput, userInputTimers, autoSave, mounted, edits>>

\* setTimeout(() => { isUserInputRef.current = false; }, 100) of addRow and addColumn
UserInputTimerFires ==
    /\ 0 \in userInputTimers
    /\ isUserInput' = FALSE
    /\ userInputTimers' = userInputTimers \ {0}
    /\ lastEvent' = "userInputReset"
    /\ UNCHANGED <<gridVars, selVars, saveVars, debounceVars, dataLoaded, mountTimer, autoSave, mounted,
                   edits>>

\* the debounce timer of handleCellValueChange
DebounceFires ==
    /\ 0 \in debounceTimers
    /\ debounceTimers' = debounceTimers \ {0}
    /\ saveTimeout' = IF saveTimeout = <<0>> THEN <<>> ELSE saveTimeout
    /\ lastEvent' = "debounceSave"
    /\ IF latestTableState # <<>>
       THEN Commit(tableRows, rowCount, columnCount,
                   saveToBackend(latestTableState[1].rows, latestTableState[1].rowCount,
                                 latestTableState[1].columnCount, writes, savingTimers),
                   isUserInput)
       ELSE UNCHANGED <<gridVars, saveVars>>
    /\ UNCHANGED <<selVars, latestTableState, burst, hostVars, edits>>

----------------------------------------------------------------------------
(* Disposal of the component, and a new instance over the same host attributes *)

\* a variant that clears the debounce timer and writes nothing
UnmountWithoutFlush ==
    /\ mounted
    /\ mounted' = FALSE
    /\ saveTimeout' = <<>>
    /\ debounceTimers' = ClearedTimers(debounceTimers, saveTimeout)
    /\ lastEvent' = "unmount"
    /\ savingTimers' = {}
    /\ userInputTimers' = {}
    /\ mountTimer' = <<>>
    /\ UNCHANGED <<gridVars, selVars, lastSavedData, isSaving, writes, useAttributeData,
                   rowCountAttribute, columnCountAttribute, statistics, ignoreAttributeUpdate,
                   latestTableState, burst, isUserInput, dataLoaded, autoSave, edits>>

\* the cleanup of the unmount effect, run when the component is disposed: it
\* clears the debounce timer and, with autoSave, hands the host the document of
\* latestTableStateRef.  The other timers of the instance die with it.
Unmount ==
    /\ mounted
    /\ mounted' = FALSE
    /\ saveTimeout' = <<>>
    /\ debounceTimers' = ClearedTimers(debounceTimers, saveTimeout)
    /\ IF latestTableState # <<>> /\ autoSave
       THEN /\ lastEvent' = "unmountFlush"
            /\ writes' = writes + 1
            /\ useAttributeData' = Document(latestTableState[1].rows,
                                            latestTableState[1].rowCount,
                                            latestTableState[1].columnCount, writes + 1)
       ELSE /\ lastEvent' = "unmount"
            /\ UNCHANGED <<writes, useAttributeData>>
    /\ savingTimers' = {}
    /\ userInputTimers' = {}
    /\ mountTimer' = <<>>
    /\ UNCHANGED <<gridVars, selVars, lastSavedData, isSaving, rowCountAttribute,
                   columnCountAttribute, statistics, ignoreAttributeUpdate, latestTableState,
                   burst, isUserInput, dataLoaded, autoSave, edits>>

\* a new instance is rendered over the attributes the host holds: the state and
\* the refs start afresh, and the effects of the first render run.  The load
\* effect takes a usable document; the row count effect then consumes the ignore
\* flag, and the column count effect finds the count it was initialised from.
Mount ==
    /\ ~mounted
    /\ mounted' = TRUE
    /\ selectedCells' = {}
    /\ isDragging' = FALSE
    /\ dragStart' = <<>>
    /\ dragHasMoved' = FALSE
    /\ lastClickCell' = <<>>
    /\ sinceLastClick' = DoubleClickMs
    /\ isSaving' = FALSE
    /\ savingTimers' = {}
    /\ saveTimeout' = <<>>
    /\ debounceTimers' = debounceTimers
    /\ latestTableState' = <<>>
    /\ burst' = NoBurst
    /\ isUserInput' = FALSE
    /\ userInputTimers' = {}
    /\ ignoreAttributeUpdate' = FALSE
    /\ IF LoadOutcome(FALSE, useAttributeData, <<>>) = "load"
       THEN /\ lastEvent' = "mountLoad"
            /\ tableRows' = LoadedRows(useAttributeData[1].tableRows)
            /\ rowCount' = useAttributeData[1].rows
            /\ columnCount' = useAttributeData[1].columns
            /\ rowCountAttribute' = <<useAttributeData[1].rows>>
            /\ columnCountAttribute' = <<useAttributeData[1].columns>>
            /\ lastSavedData' = useAttributeData
            /\ statistics' = <<updateCellStatistics(LoadedRows(useAttributeData[1].tableRows))>>
            /\ dataLoaded' = TRUE
            /\ mountTimer' = <<>>
       ELSE /\ lastEvent' = "render"
            /\ tableRows' = <<>>
            /\ rowCount' = getInitialRows(rowCountAttribute)
            /\ columnCount' = getInitialColumns(columnCountAttribute)
            /\ lastSavedData' = <<>>
            /\ dataLoaded' = FALSE
            /\ mountTimer' = <<MountDelayMs, getInitialRows(rowCountAttribute),
                               getInitialColumns(columnCountAttribute)>>
            /\ UNCHANGED <<rowCountAttribute, columnCountAttribute, statistics>>
    /\ UNCHANGED <<writes, useAttributeData, autoSave, edits>>

----------------------------------------------------------------------------
(* The grid editor once the grid exists: edits and selection, no time passing *)

\* the component right after the mount timer created the r x c grid from the
\* attribute-supplied counts: Init, MountDelayMs later, MountTimerFires
\* and, when settled, SavingResetMs later still, after the isSaving timer fired;
\* the load effect then finds the document the component wrote and returns
MountedSince(r, c, auto, settled) ==
    LET s == saveToBackend(NewTable(r, c), r, c, 0, {})
    IN /\ autoSave = auto
       /\ mounted = TRUE
       /\ rowCount = r
       /\ columnCount = c
       /\ tableRows = NewTable(r, c)
       /\ selectedCells = {}
       /\ isDragging = FALSE
       /\ dragStart = <<>>
       /\ dragHasMoved = FALSE
       /\ lastClickCell = <<>>
       /\ sinceLastClick = DoubleClickMs
       /\ lastSavedData = s.lastSavedData
       /\ isSaving = IF settled THEN FALSE ELSE s.isSaving
       /\ savingTimers = IF settled THEN {} ELSE s.savingTimers
       /\ saveTimeout = <<>>
       /\ debounceTimers = {}
       /\ latestTableState = <<>>
       /\ burst = NoBurst
       /\ writes = s.writes
       /\ useAttributeData = s.useAttributeData
       /\ rowCountAttribute = s.rowCountAttribute
       /\ columnCountAttribute = s.columnCountAttribute
       /\ statistics = s.statistics
       /\ ignoreAttributeUpdate = s.ignoreAttributeUpdate
       /\ isUserInput = FALSE
       /\ userInputTimers = {}
       /\ dataLoaded = TRUE
       /\ mountTimer = <<>>
       /\ lastEvent = IF settled THEN "savingReset" ELSE "mount"
       /\ gesture = NoGesture
       /\ edits = 0

Mounted(r, c, auto) == MountedSince(r, c, auto, FALSE)

InitMounted == Mounted(2, 2, TRUE)

\* the buttons that act on the selection are rendered while cells are selected
ControlsShown == selectedCells # {}

\* the Merge Selected button is disabled while fewer than two cells are selected
MergeButtonEnabled == ~(Cardinality(selectedCells) < 2)

\* The buttons and the inputs of the rendered cells are used while no drag is
\* under way, and selections are made by dragging over rendered cells.
NextEdit ==
    \/ \E t \in VisibleIds(tableRows) :
           ~isDragging /\ onPointerDown(t, TRUE, FALSE) /\ UNCHANGED gesture
    \/ \E t \in VisibleIds(tableRows) : isDragging /\ onPointerMove(t) /\ UNCHANGED gesture
    \/ dragHasMoved /\ onPointerUp /\ UNCHANGED gesture
    \/ ~isDragging /\ applyDimensions /\ UNCHANGED gesture
    \/ ~isDragging /\ addRow /\ UNCHANGED gesture
    \/ ~isDragging /\ addColumn /\ UNCHANGED gesture
    \/ \E id \in VisibleIds(tableRows), v \in EditValues :
           ~isDragging /\ handleCellValueChange(id[1], id[2], v) /\ UNCHANGED gesture
    \/ \E id \in VisibleIds(tableRows) :
           ~isDragging /\ handleCheckboxChange(id[1], id[2]) /\ UNCHANGED gesture
    \/ ~isDragging /\ ControlsShown /\ MergeButtonEnabled /\ mergeCells /\ UNCHANGED gesture
    \/ ~isDragging /\ ControlsShown /\ unmergeCells /\ UNCHANGED gesture
    \/ ~isDragging /\ ControlsShown /\ blankCells /\ UNCHANGED gesture
    \/ ~isDragging /\ ControlsShown /\ unblankCells /\ UNCHANGED gesture
    \/ ~isDragging /\ ControlsShown /\ selectAllCells /\ UNCHANGED gesture
    \/ ~isDragging /\ ControlsShown /\ clearSelection /\ UNCHANGED gesture

SpecEdit == InitMounted /\ [][NextEdit]_vars

----------------------------------------------------------------------------
(* Merging on a wider grid, where a rectangle can cut through a merge group *)

InitWide == Mounted(2, 3, TRUE)

NextMerge ==
    \/ \E t \in VisibleIds(tableRows) :
           ~isDragging /\ onPointerDown(t, TRUE, FALSE) /\ UNCHANGED gesture
    \/ \E t \in VisibleIds(tableRows) : isDragging /\ onPointerMove(t) /\ UNCHANGED gesture
    \/ dragHasMoved /\ onPointerUp /\ UNCHANGED gesture
    \/ ~isDragging /\ ControlsShown /\ MergeButtonEnabled /\ mergeCells /\ UNCHANGED gesture
    \/ ~isDragging /\ ControlsShown /\ unmergeCells /\ UNCHANGED gesture
    \/ ~isDragging /\ ControlsShown /\ blankCells /\ UNCHANGED gesture
    \/ ~isDragging /\ ControlsShown /\ unblankCells /\ UNCHANGED gesture
    \/ ~isDragging /\ ControlsShown /\ selectAllCells /\ UNCHANGED gesture
    \/ ~isDragging /\ ControlsShown /\ clearSelection /\ UNCHANGED gesture

SpecMerge == InitWide /\ [][NextMerge]_vars

----------------------------------------------------------------------------
(* The selection machine: every pointer event, time passing, merge groups *)

\* the time that passes between two pointer events
PointerDurations == {200}

\* pointerdown events: the primary button anywhere, and on the first cell
\* another button and the primary button on the cell's checkbox
PointerDownInputs ==
    {<<t, TRUE, FALSE>> : t \in PointerTargets}
        \cup {<<cellId(1, 1), FALSE, FALSE>>, <<cellId(1, 1), TRUE, TRUE>>}

\* Every pointer event; the user presses Merge Selected once, and clears the
\* selection, while no press is under way.
NextPointer ==
    \/ \E in \in PointerDownInputs :
           /\ gesture.count < MaxGestures
           /\ onPointerDown(in[1], in[2], in[3])
           /\ GestureHistory
    \/ \E t \in PointerTargets : onPointerMove(t) /\ GestureHistory
    \/ onPointerUp /\ GestureHistory
    \/ onPointerCancel /\ GestureHistory
    \/ /\ ~isDragging /\ ControlsShown /\ MergeButtonEnabled /\ edits = 0
       /\ mergeCells
       /\ GestureHistory
    \/ ~isDragging /\ ControlsShown /\ clearSelection /\ GestureHistory
    \/ \E d \in PointerDurations : Tick(d) /\ GestureHistory
    \/ SavingTimerFires /\ GestureHistory

SpecPointer == InitMounted /\ [][NextPointer]_vars

----------------------------------------------------------------------------
(* Value changes and the debounced save *)

InitSave == \E auto \in BOOLEAN : Mounted(1, 2, auto)

NextSave ==
    \/ \E id \in VisibleIds(tableRows), v \in Values :
           handleCellValueChange(id[1], id[2], v) /\ UNCHANGED gesture
    \/ \E d \in Durations : Tick(d) /\ UNCHANGED gesture
    \/ SavingTimerFires /\ UNCHANGED gesture
    \/ DebounceFires /\ UNCHANGED gesture

SpecSave == InitSave /\ [][NextSave]_vars

----------------------------------------------------------------------------
(* The component and its host, from the first render on *)

NextHost ==
    \/ MountTimerFires /\ UNCHANGED gesture
    \/ applyDimensions /\ UNCHANGED gesture
    \/ addRow /\ UNCHANGED gesture
    \/ addColumn /\ UNCHANGED gesture
    \/ \E v \in HostCounts : HostSetsRowCount(v) /\ UNCHANGED gesture
    \/ \E v \in HostCounts : HostSetsColumnCount(v) /\ UNCHANGED gesture
    \/ \E doc \in ExternalDocuments : HostSetsDocument(doc) /\ UNCHANGED gesture
    \/ \E d \in Durations : Tick(d) /\ UNCHANGED gesture
    \/ SavingTimerFires /\ UNCHANGED gesture
    \/ UserInputTimerFires /\ UNCHANGED gesture

SpecHost == Init /\ [][NextHost]_vars

----------------------------------------------------------------------------
(* Editing, saving, disposal and reload of a 1 x 2 grid *)

\* the values typed into a cell here: the empty string and a letter
ReloadValues == {"", "a"}

NextReload ==
    \/ \E id \in VisibleIds(tableRows), v \in ReloadValues :
           mounted /\ handleCellValueChange(id[1], id[2], v) /\ UNCHANGED gesture
    \/ \E id \in VisibleIds(tableRows) :
           mounted /\ handleCheckboxChange(id[1], id[2]) /\ UNCHANGED gesture
    \/ \E d \in Durations : mounted /\ Tick(d) /\ UNCHANGED gesture
    \/ mounted /\ SavingTimerFires /\ UNCHANGED gesture
    \/ mounted /\ DebounceFires /\ UNCHANGED gesture
    \/ Unmount /\ UNCHANGED gesture
    \/ Mount /\ UNCHANGED gesture

SpecReload == InitSave /\ [][NextReload]_vars

----------------------------------------------------------------------------
(* A 1 x 2 grid with autoSave: value changes, edits that save at once, timers *)

InitAutoSave == Mounted(1, 2, TRUE)

NextAutoSave ==
    \/ \E id \in VisibleIds(tableRows), v \in EditValues :
           handleCellValueChange(id[1], id[2], v) /\ UNCHANGED gesture
    \/ \E id \in VisibleIds(tableRows) :
           handleCheckboxChange(id[1], id[2]) /\ UNCHANGED gesture
    \/ addRow /\ UNCHANGED gesture
    \/ \E d \in Durations : Tick(d) /\ UNCHANGED gesture
    \/ SavingTimerFires /\ UNCHANGED gesture
    \/ UserInputTimerFires /\ UNCHANGED gesture
    \/ DebounceFires /\ UNCHANGED gesture

SpecAutoSave == InitAutoSave /\ [][NextAutoSave]_vars

----------------------------------------------------------------------------
(* A 2 x 2 grid with a selection, and a host that replaces the document *)

\* the document createNewTable wrote when the mount timer fired
WrittenAtMount == Document(NewTable(2, 2), 2, 2, 1)

\* The host supplies a document the component did not write, or presents again
\* the one the component remembers in lastSavedDataRef or the one it wrote.
NextLoad ==
    \/ \E t \in VisibleIds(tableRows) :
           ~isDragging /\ onPointerDown(t, TRUE, FALSE) /\ UNCHANGED gesture
    \/ \E t \in VisibleIds(tableRows) : isDragging /\ onPointerMove(t) /\ UNCHANGED gesture
    \/ dragHasMoved /\ onPointerUp /\ UNCHANGED gesture
    \/ \E doc \in ExternalDocuments \cup {lastSavedData, WrittenAtMount} :
           HostSetsDocument(doc) /\ UNCHANGED gesture
    \/ \E d \in Durations : Tick(d) /\ UNCHANGED gesture
    \/ SavingTimerFires /\ UNCHANGED gesture

SpecLoad == InitMounted /\ [][NextLoad]_vars

----------------------------------------------------------------------------
(* A 2 x 2 grid whose host presents again the document written at mount *)

\* Checkbox changes write further documents; the host's notification carries the
\* first document the component wrote.
NextEcho ==
    \/ \E t \in VisibleIds(tableRows) :
           ~isDragging /\ onPointerDown(t, TRUE, FALSE) /\ UNCHANGED gesture
    \/ \E t \in VisibleIds(tableRows) : isDragging /\ onPointerMove(t) /\ UNCHANGED gesture
    \/ dragHasMoved /\ onPointerUp /\ UNCHANGED gesture
    \/ \E id \in VisibleIds(tableRows) :
           ~isDragging /\ handleCheckboxChange(id[1], id[2]) /\ UNCHANGED gesture
    \/ HostSetsDocument(WrittenAtMount) /\ UNCHANGED gesture
    \/ \E d \in Durations : Tick(d) /\ UNCHANGED gesture
    \/ SavingTimerFires /\ UNCHANGED gesture

SpecEcho == InitMounted /\ [][NextEcho]_vars

----------------------------------------------------------------------------
(* Creation and growth at the limits of the dimensions *)

\* row counts a host can hold at the first render: none, zero, the maximum, one more
BoundaryCounts == {<<>>, <<0>>, <<MaxDimension>>, <<MaxDimension + 1>>}

InitCreate == FirstRender(BoundaryCounts, {<<1>>})

NextCreate ==
    \/ MountTimerFires /\ UNCHANGED gesture
    \/ applyDimensions /\ UNCHANGED gesture
    \/ addRow /\ UNCHANGED gesture
    \/ addColumn /\ UNCHANGED gesture
    \/ \E d \in Durations : Tick(d) /\ UNCHANGED gesture
    \/ SavingTimerFires /\ UNCHANGED gesture
    \/ UserInputTimerFires /\ UNCHANGED gesture

SpecCreate == InitCreate /\ [][NextCreate]_vars

----------------------------------------------------------------------------
(* The selection under the edit operations and a document load *)

\* the document the host supplies here: the 1 x 2 grid with cell values "" and "b"
SuppliedDocument ==
    CHOOSE doc \in ExternalDocuments :
        DocumentAccepted(doc[1]) /\ RowsMappable(doc[1]) /\ Len(doc[1].tableRows) > 0

NextSelect ==
    \/ \E t \in VisibleIds(tableRows) :
           ~isDragging /\ onPointerDown(t, TRUE, FALSE) /\ UNCHANGED gesture
    \/ \E t \in VisibleIds(tableRows) : isDragging /\ onPointerMove(t) /\ UNCHANGED gesture
    \/ dragHasMoved /\ onPointerUp /\ UNCHANGED gesture
    \/ ~isDragging /\ addRow /\ UNCHANGED gesture
    \/ ~isDragging /\ addColumn /\ UNCHANGED gesture
    \/ \E id \in VisibleIds(tableRows), v \in EditValues :
           ~isDragging /\ handleCellValueChange(id[1], id[2], v) /\ UNCHANGED gesture
    \/ \E id \in VisibleIds(tableRows) :
           ~isDragging /\ handleCheckboxChange(id[1], id[2]) /\ UNCHANGED gesture
    \/ ~isDragging /\ ControlsShown /\ MergeButtonEnabled /\ mergeCells /\ UNCHANGED gesture
    \/ ~isDragging /\ ControlsShown /\ unmergeCells /\ UNCHANGED gesture
    \/ ~isDragging /\ ControlsShown /\ blankCells /\ UNCHANGED gesture
    \/ ~isDragging /\ ControlsShown /\ unblankCells /\ UNCHANGED gesture
    \/ ~isDragging /\ ControlsShown /\ clearSelection /\ UNCHANGED gesture
    \/ HostSetsDocument(SuppliedDocument) /\ UNCHANGED gesture

InitSettled == MountedSince(2, 2, TRUE, TRUE)

SpecSelect == InitSettled /\ [][NextSelect]_vars

----------------------------------------------------------------------------
(* Handlers addressed to cells the grid does not hold *)

\* a document the component wrote earlier: a 1 x 2 grid whose two cells form
\* the group (1,1)-(1,2)
MergedDocument ==
    <<[rows |-> 1, columns |-> 2,
       tableRows |-> <<[rowIndex |-> 1,
                        cells |-> <<MergedCell(DefaultCell(1, 1),
                                               [minRow |-> 1, maxRow |-> 1,
                                                minCol |-> 1, maxCol |-> 2],
                                               DefaultCell(1, 1)),
                                    MergedCell(DefaultCell(1, 2),
                                               [minRow |-> 1, maxRow |-> 1,
                                                minCol |-> 1, maxCol |-> 2],
                                               DefaultCell(1, 1))>>]>>,
       updatedAt |-> 0]>>

\* the rows and columns the value and checkbox handlers are called with: those
\* of the 2 x 2 grid and one beyond
AddressRange == 1..3

\* A document that arrives during a drag replaces the grid while dragStartRef
\* keeps the cell the drag began on, so the rectangle of the next pointermove can
\* hold ids of cells the new grid does not have.  The value and checkbox
\* handlers are called with any address of the range.
NextAddress ==
    \/ \E t \in VisibleIds(tableRows) :
           ~isDragging /\ onPointerDown(t, TRUE, FALSE) /\ UNCHANGED gesture
    \/ \E t \in VisibleIds(tableRows) : isDragging /\ onPointerMove(t) /\ UNCHANGED gesture
    \/ dragHasMoved /\ onPointerUp /\ UNCHANGED gesture
    \/ \E r, c \in AddressRange, v \in EditValues :
           ~isDragging /\ handleCellValueChange(r, c, v) /\ UNCHANGED gesture
    \/ \E r, c \in AddressRange :
           ~isDragging /\ handleCheckboxChange(r, c) /\ UNCHANGED gesture
    \/ ~isDragging /\ ControlsShown /\ unmergeCells /\ UNCHANGED gesture
    \/ ~isDragging /\ ControlsShown /\ blankCells /\ UNCHANGED gesture
    \/ ~isDragging /\ ControlsShown /\ unblankCells /\ UNCHANGED gesture
    \/ HostSetsDocument(MergedDocument) /\ UNCHANGED gesture

SpecAddress == InitSettled /\ [][NextAddress]_vars

----------------------------------------------------------------------------
(* Properties of the merge groups *)

\* the merge ids in use, and the cells that carry one of them
MergeIds(rows) == {CellAt(rows, p).mergeId : p \in CellPositions(rows)} \ {<<>>}

Members(rows, m) == {p \in CellPositions(rows) : CellAt(rows, p).mergeId = m}

\* C1: any two cells that carry the same non-empty merge id have the same value,
\* checked, blocked and blank fields.
MergeGroupConsistency ==
    \A m \in MergeIds(tableRows) : \A p, q \in Members(tableRows, m) :
        /\ CellAt(tableRows, p).sequenceNumber = CellAt(tableRows, q).sequenceNumber
        /\ CellAt(tableRows, p).checked = CellAt(tableRows, q).checked
        /\ CellAt(tableRows, p).isBlocked = CellAt(tableRows, q).isBlocked
        /\ CellAt(tableRows, p).isBlank = CellAt(tableRows, q).isBlank

\* mergeCells has just formed a group of which some cells are blank and others not
MergedOverPartlyBlank ==
    /\ lastEvent = "merge"
    /\ \E m \in MergeIds(tableRows) : \E p, q \in Members(tableRows, m) :
           CellAt(tableRows, p).isBlank /\ ~CellAt(tableRows, q).isBlank

\* C2: each merge group has exactly one member that is not hidden, the spans of
\* that member multiply to the number of cells of the group, and every other
\* member is hidden with both spans 1.
SingleAnchor ==
    \A m \in MergeIds(tableRows) :
        LET shown == {p \in Members(tableRows, m) : ~CellAt(tableRows, p).isHidden}
        IN /\ Cardinality(shown) = 1
           /\ \A p \in shown :
                  CellAt(tableRows, p).rowSpan * CellAt(tableRows, p).colSpan
                      = Cardinality(Members(tableRows, m))
           /\ \A p \in Members(tableRows, m) \ shown :
                  /\ CellAt(tableRows, p).isHidden
                  /\ CellAt(tableRows, p).rowSpan = 1
                  /\ CellAt(tableRows, p).colSpan = 1

\* a merge has just made the group (1,2)-(2,3) while cell (1,1), which a drag can
\* only have left out of that rectangle, stands alone
SingleAnchorWitness ==
    /\ lastEvent = "merge"
    /\ Cardinality(Members(tableRows, createMergeId(1, 2, 2, 3))) = 4
    /\ edits = 2
    /\ writes = 3

\* the selection is a gap-free rectangle of at least two cells
IsExactRectangle(sel) ==
    /\ Cardinality(sel) >= 2
    /\ LET rs == {id[1] : id \in sel}
           cs == {id[2] : id \in sel}
       IN Cardinality(sel) = (Max(rs) - Min(rs) + 1) * (Max(cs) - Min(cs) + 1)

\* C4: a run of mergeCells changes the grid if and only if the selection holds at
\* least two cells and as many as its bounding box.
RectangleAdmission ==
    [][(edits' = edits + 1 /\ lastEvent' \in {"merge", "mergeRejected", "mergeNoTopLeft"})
          => ((tableRows' # tableRows) <=> IsExactRectangle(selectedCells))]_vars

\* mergeCells has just turned down the three visible cells of a 2 x 2 grid whose
\* first column is merged
RectangleAdmissionWitness ==
    /\ lastEvent = "mergeRejected"
    /\ selectedCells = {cellId(1, 1), cellId(1, 2), cellId(2, 2)}

\* C12: blankCells run again on the selection it has just blanked leaves the
\* grid that its first run left.
BlankIdempotent ==
    [][lastEvent' = "blank"
          => BlankedRows(tableRows', selectedCells, TRUE) = tableRows']_vars

\* blankCells has just blanked a whole merge group next to a cell that is not blank
BlankedMergeGroup ==
    /\ lastEvent = "blank"
    /\ \E m \in MergeIds(tableRows) :
           \A p \in Members(tableRows, m) : CellAt(tableRows, p).isBlank
    /\ \E p \in CellPositions(tableRows) : ~CellAt(tableRows, p).isBlank

\* C13: a run of mergeCells on a selection of fewer than two cells, or one that
\* does not fill its bounding box, leaves every cell and the selection as they
\* are and writes no document.
MergeRejectionLeavesAll ==
    [][(/\ edits' = edits + 1
        /\ lastEvent' \in {"merge", "mergeRejected", "mergeNoTopLeft"}
        /\ ~IsExactRectangle(selectedCells))
          => /\ tableRows' = tableRows
             /\ selectedCells' = selectedCells
             /\ writes' = writes
             /\ useAttributeData' = useAttributeData]_vars

\* mergeCells has just turned down a selection with a gap, made with Select All
\* on a grid that holds a merge group
GappedSelectionKept ==
    /\ lastEvent = "mergeRejected"
    /\ MergeIds(tableRows) # {}
    /\ ~IsExactRectangle(selectedCells)
    /\ writes = 2

\* C19: the cells that share a merge id are exactly the cells of the rectangle
\* that spans them, which is the rectangle the id names; hence no two groups
\* share a cell.
GroupsFillRectangles ==
    \A m \in MergeIds(tableRows) :
        LET rs == {p[1] : p \in Members(tableRows, m)}
            cs == {p[2] : p \in Members(tableRows, m)}
        IN /\ Members(tableRows, m) = (Min(rs)..Max(rs)) \X (Min(cs)..Max(cs))
           /\ m = createMergeId(Min(rs), Min(cs), Max(rs), Max(cs))

\* a column has been added to a grid that holds a merge group of two rows
ColumnAddedBesideGroup ==
    /\ lastEvent = "addColumn"
    /\ \E m \in MergeIds(tableRows) :
           Cardinality({p[1] : p \in Members(tableRows, m)}) = 2
    /\ Len(tableRows[1].cells) = 3

\* the cell is not part of any merge group and shows as a cell of its own
FullyUnmerged(cl) ==
    /\ ~cl.isMerged
    /\ cl.mergeId = <<>>
    /\ ~cl.isHidden
    /\ cl.rowSpan = 1
    /\ cl.colSpan = 1

\* C23: after a merge over a rectangle, every cell of a group that had a member
\* in the rectangle, the members outside the rectangle included, is either in
\* the rectangle and a member of the new group, or fully unmerged.
MergeDissolvesOverlapped ==
    [][lastEvent' = "merge"
          => LET b == BoundingBox(selectedCells)
                 box == BoxPositions(tableRows, b)
                 old == {CellAt(tableRows, p).mergeId : p \in box} \ {<<>>}
             IN \A p \in CellPositions(tableRows) :
                    CellAt(tableRows, p).mergeId \in old
                        => \/ /\ p \in box
                              /\ CellAt(tableRows', p).mergeId
                                     = createMergeId(b.minRow, b.minCol, b.maxRow, b.maxCol)
                           \/ FullyUnmerged(CellAt(tableRows', p))]_vars

\* the second merge of a run has formed the group (1,1)-(2,2) on the 2 x 3 grid
\* and cell (1,3), the far end of the group (1,2)-(1,3) that the rectangle cut
\* through, stands alone
CutGroupDissolved ==
    /\ lastEvent = "merge"
    /\ writes = 3
    /\ MergeIds(tableRows) = {createMergeId(1, 1, 2, 2)}
    /\ FullyUnmerged(CellAt(tableRows, <<1, 3>>))
    /\ selectedCells = {cellId(1, 1)}

\* C24: after a merge over a rectangle, every cell of the rectangle has the
\* value, checked and blocked fields its top-left cell had before the merge; the
\* top-left cell spans the rectangle and is shown, every other cell of it has
\* both spans 1 and is hidden; a cell outside the rectangle that belonged to no
\* group with a member in the rectangle is unchanged.
MergeWritesRectangle ==
    [][lastEvent' = "merge"
          => LET b == BoundingBox(selectedCells)
                 box == BoxPositions(tableRows, b)
                 old == {CellAt(tableRows, p).mergeId : p \in box} \ {<<>>}
                 tl == CellAt(tableRows, CellPos(tableRows, b.minRow, b.minCol))
             IN \A p \in CellPositions(tableRows) :
                    LET was == CellAt(tableRows, p)
                        now == CellAt(tableRows', p)
                    IN /\ p \in box
                          => /\ now.sequenceNumber = tl.sequenceNumber
                             /\ now.checked = tl.checked
                             /\ now.isBlocked = tl.isBlocked
                             /\ IF was.rowIndex = b.minRow /\ was.columnIndex = b.minCol
                                THEN /\ now.rowSpan = b.maxRow - b.minRow + 1
                                     /\ now.colSpan = b.maxCol - b.minCol + 1
                                     /\ ~now.isHidden
                                ELSE /\ now.rowSpan = 1
                                     /\ now.colSpan = 1
                                     /\ now.isHidden
                       /\ (p \notin box /\ was.mergeId \notin old) => now = was]_vars

\* a merge has just given the hidden cell (1,2) the value that was typed into the
\* top-left cell (1,1), while the untouched cell (2,2) keeps its default value
TopLeftValueAdopted ==
    /\ lastEvent = "merge"
    /\ MergeIds(tableRows) = {createMergeId(1, 1, 1, 2)}
    /\ CellAt(tableRows, <<1, 2>>).isHidden
    /\ CellAt(tableRows, <<1, 2>>).sequenceNumber # "-"
    /\ CellAt(tableRows, <<1, 1>>).sequenceNumber = CellAt(tableRows, <<1, 2>>).sequenceNumber
    /\ CellAt(tableRows, <<2, 2>>) = DefaultCell(2, 2)

\* C26: unmergeCells makes every member of every group that has a member in
\* the selection fully unmerged, changes no value, checked, blocked or blank
\* field, leaves every cell outside those groups as it was, and when no selected
\* cell is merged leaves the grid unchanged and writes nothing.
UnmergeResetsTouchedGroups ==
    [][lastEvent' \in {"unmerge", "unmergeNothing"}
          => LET touched == {CellAt(tableRows, p).mergeId :
                                p \in Positions(tableRows, selectedCells)} \ {<<>>}
             IN /\ \A p \in CellPositions(tableRows) :
                       LET was == CellAt(tableRows, p)
                           now == CellAt(tableRows', p)
                       IN /\ was.mergeId \in touched => FullyUnmerged(now)
                          /\ was.mergeId \notin touched => now = was
                          /\ now.sequenceNumber = was.sequenceNumber
                          /\ now.checked = was.checked
                          /\ now.isBlocked = was.isBlocked
                          /\ now.isBlank = was.isBlank
                /\ touched = {} => /\ tableRows' = tableRows
                                   /\ writes' = writes
                                   /\ useAttributeData' = useAttributeData]_vars

\* unmergeCells, with only the shown cell (1,2) of a group selected, has
\* dissolved that group: every cell of the 2 x 3 grid is a default cell again
GroupDissolvedFromAnchor ==
    /\ lastEvent = "unmerge"
    /\ selectedCells = {cellId(1, 2)}
    /\ tableRows = NewTable(2, 3)
    /\ lastSavedData = Document(NewTable(2, 3), 2, 3, 3)

\* C27: blankCells (unblankCells) sets isBlank to true (false) on every selected
\* cell and on every cell that shares a merge id with a selected cell, and
\* changes no other field of those cells and no other cell.
BlankSetsGroupsOnly ==
    [][lastEvent' \in {"blank", "unblank"}
          => LET hit == Positions(tableRows, selectedCells)
                 groups == {CellAt(tableRows, p).mergeId : p \in hit} \ {<<>>}
             IN \A p \in CellPositions(tableRows) :
                    LET was == CellAt(tableRows, p)
                    IN CellAt(tableRows', p)
                           = IF p \in hit \/ was.mergeId \in groups
                             THEN [was EXCEPT !.isBlank = (lastEvent' = "blank")]
                             ELSE was]_vars

\* blankCells has just blanked the group (1,1)-(1,2), hidden member included,
\* and left the four other cells of the 2 x 3 grid as they were created
HiddenMemberBlanked ==
    /\ lastEvent = "blank"
    /\ Members(tableRows, createMergeId(1, 1, 1, 2)) = {<<1, 1>>, <<1, 2>>}
    /\ CellAt(tableRows, <<1, 1>>).isBlank
    /\ CellAt(tableRows, <<1, 2>>).isHidden /\ CellAt(tableRows, <<1, 2>>).isBlank
    /\ \A p \in CellPositions(tableRows) \ {<<1, 1>>, <<1, 2>>} :
           CellAt(tableRows, p) = DefaultCell(p[1], p[2])

\* C34: in every state reached through the edit operations, a cell with a span
\* above 1 has a merge id and is shown, a hidden cell has a merge id, and
\* isMerged is set exactly on the cells that have a merge id.
MergeFieldsAgree ==
    \A cl \in AllCells(tableRows) :
        /\ (cl.rowSpan > 1 \/ cl.colSpan > 1) => (cl.mergeId # <<>> /\ ~cl.isHidden)
        /\ cl.isHidden => cl.mergeId # <<>>
        /\ cl.isMerged <=> cl.mergeId # <<>>

\* a merge of the whole 2 x 2 grid: the anchor spans two rows and two columns,
\* the three other cells are hidden
WholeGridMerged ==
    /\ lastEvent = "merge"
    /\ CellAt(tableRows, <<1, 1>>).rowSpan = 2
    /\ CellAt(tableRows, <<1, 1>>).colSpan = 2
    /\ Cardinality({p \in CellPositions(tableRows) : CellAt(tableRows, p).isHidden}) = 3

----------------------------------------------------------------------------
(* Properties of the dimensions *)

\* C3: once the grid has been created or loaded, rowCount is the number of its
\* rows and columnCount the number of cells of every row.
DimensionInvariant ==
    dataLoaded =>
        /\ rowCount = Len(tableRows)
        /\ \A i \in 1..Len(tableRows) : columnCount = Len(tableRows[i].cells)

\* the host has changed the row count attribute of a component that shows a grid,
\* and the component has taken the value over
HostRowCountDrift ==
    /\ lastEvent = "hostRowCount"
    /\ dataLoaded
    /\ rowCount # Len(tableRows)

----------------------------------------------------------------------------
(* Properties of the selection machine *)

InclusiveRectangle(a, b) ==
    {cellId(r, c) : r \in Min({a[1], b[1]})..Max({a[1], b[1]}),
                    c \in Min({a[2], b[2]})..Max({a[2], b[2]})}

\* C5: a press on a cell while nothing is selected, released without movement to
\* another cell and not as a double click, leaves exactly that cell selected.
ClickSelectsCell ==
    [][(lastEvent' = "click" /\ gesture.emptyBefore)
          => selectedCells' = {lastClickCell'}]_vars

\* such a click has just ended, and nothing is selected
ClickLeftNothingSelected ==
    /\ lastEvent = "click"
    /\ gesture.emptyBefore
    /\ selectedCells = {}

\* C35: a press on a cell released without movement, and not as a double click,
\* toggles the cell: the cell is selected after the click exactly if the
\* selection did not hold it before the press.
SingleClickToggles ==
    [][lastEvent' = "click"
          => ((lastClickCell' \in selectedCells') <=> ~gesture.heldBefore)]_vars

\* a click on a cell the selection did not hold has just ended, and the cell is
\* not selected
ClickLeftCellUnselected ==
    /\ lastEvent = "click"
    /\ ~gesture.heldBefore
    /\ lastClickCell \notin selectedCells

\* a click on a cell the selection held has just ended, and the cell is not
\* selected
ClickDeselectedCell ==
    /\ lastEvent = "click"
    /\ gesture.heldBefore
    /\ lastClickCell \notin selectedCells

\* C6: every pointermove of a drag to a cell makes the selection the inclusive
\* rectangle between the drag's start and that cell, and the pointerup that
\* follows leaves the selection as it is.
DragSelectsRectangle ==
    [][/\ \A t \in VisibleIds(tableRows) :
              (isDragging /\ dragStart # <<>> /\ onPointerMove(t))
                  => selectedCells' = InclusiveRectangle(dragStart, t)
       /\ (lastEvent' \in {"click", "doubleClick", "dragEnd"} /\ gesture.moved)
              => selectedCells' = selectedCells]_vars

\* a press whose pointermoves all stayed on the cell it started on has been
\* released, and the one-cell rectangle is no longer selected
StationaryDragLostSelection ==
    /\ lastEvent = "click"
    /\ gesture.moved
    /\ lastClickCell \notin selectedCells

\* C7: on the anchor of a merge group none of whose cells was selected, the second
\* click of a run of rapid clicks leaves every cell of the group selected, and the
\* fourth leaves none of them selected.
DoubleClickTogglesGroup ==
    [][(/\ lastEvent' = "doubleClick"
        /\ gesture.runClear
        /\ Cardinality(GroupIds(tableRows, lastClickCell')) >= 2)
          => /\ gesture.run = 1 => GroupIds(tableRows, lastClickCell') \subseteq selectedCells'
             /\ gesture.run = 3 => GroupIds(tableRows, lastClickCell') \cap selectedCells' = {}]_vars

\* the second rapid click on such an anchor has ended, and no cell of the group
\* is selected
DoubleClickLeftGroupUnselected ==
    /\ lastEvent = "doubleClick"
    /\ gesture.run = 2
    /\ gesture.runClear
    /\ Cardinality(GroupIds(tableRows, lastClickCell)) >= 2
    /\ GroupIds(tableRows, lastClickCell) \cap selectedCells = {}

\* C36: a pointerdown on a checkbox leaves the selection machine, the selection
\* and the grid as they are, so no press is under way after it unless one was
\* before; a pointermove or a pointerup that finds no press under way leaves the
\* selection, the grid and the record of the last click as they are.
IgnoredEventsChangeNothing ==
    [][/\ lastEvent' = "pointerDownOnCheckbox" => UNCHANGED <<selVars, gridVars>>
       /\ (/\ ~isDragging
           /\ lastEvent' \in {"pointerMove", "pointerMoveIgnored", "pointerUpIgnored",
                               "click", "doubleClick", "dragEnd"})
              => UNCHANGED <<selVars, gridVars>>]_vars

\* a pointerdown on the checkbox of a cell has just been handled while another
\* cell was selected and a click on it recorded
CheckboxPressIgnored ==
    /\ lastEvent = "pointerDownOnCheckbox"
    /\ ~isDragging
    /\ selectedCells # {}
    /\ cellId(1, 1) \notin selectedCells
    /\ lastClickCell # <<>>

\* a pointermove or a pointerup has just been handled with no press under way,
\* some cells being selected
IdleMoveOrUpIgnored ==
    /\ lastEvent \in {"pointerMoveIgnored", "pointerUpIgnored"}
    /\ ~isDragging
    /\ selectedCells # {}

\* C8: a pointerup or a pointercancel, whatever the state it finds, leaves the
\* machine idle with the drag start cleared and the moved flag false.
UpOrCancelLeavesIdle ==
    [][lastEvent' \in {"pointerUpIgnored", "click", "doubleClick", "dragEnd",
                       "pointerCancel", "pointerCancelIdle"}
          => (~isDragging' /\ dragStart' = <<>> /\ ~dragHasMoved')]_vars

\* a drag over several cells has been cancelled
CancelledMovedDrag ==
    /\ lastEvent = "pointerCancel"
    /\ gesture.moved
    /\ Cardinality(selectedCells) >= 2
    /\ ~isDragging

\* the selection onPointerUp would leave in the current state
PointerUpSelection ==
    IF isDragging /\ ~dragHasMoved /\ dragStart # <<>>
    THEN ClickSelection(tableRows, selectedCells, dragStart)
    ELSE selectedCells

\* C9: cancelling a drag leaves the machine state and the selection that a
\* pointerup in the same state would leave, whether or not the drag has moved.
CancelEqualsPointerUp ==
    [][(isDragging /\ lastEvent' = "pointerCancel")
          => /\ ~isDragging' /\ dragStart' = <<>> /\ ~dragHasMoved'
             /\ selectedCells' = PointerUpSelection]_vars

\* a press that had not moved has been cancelled, and its cell is still selected
CancelledPressKeptCell ==
    /\ lastEvent = "pointerCancel"
    /\ ~gesture.moved
    /\ Cardinality(selectedCells) = 1

----------------------------------------------------------------------------
(* Properties of the debounced save *)

\* C10: with autoSave, the value changes that follow one another within
\* DebounceMs lead to one write: none while the timer is pending, one when it
\* fires DebounceMs after the last change, and that write carries the rows the
\* last change left.
DebounceCollapse ==
    /\ [](autoSave /\ burst.calls >= 1
            => /\ writes = burst.writes + (IF saveTimeout # <<>> THEN 0 ELSE 1)
               /\ saveTimeout # <<>> => saveTimeout[1] = DebounceMs - burst.since)
    /\ [][(autoSave /\ lastEvent' = "debounceSave")
              => /\ writes' = burst.writes + 1
                 /\ burst.since = DebounceMs
                 /\ useAttributeData'[1].tableRows = tableRows
                 /\ saveTimeout' = <<>>]_vars

\* the one write that two value changes in quick succession led to
TwoChangesOneWrite ==
    /\ lastEvent = "debounceSave"
    /\ burst.calls = 2
    /\ writes = burst.writes + 1

\* C33: at most one debounce callback is scheduled at any moment, the one
\* saveTimeoutRef names; a value change clears the scheduled callback before it
\* schedules a new one with the full delay; and when a callback runs, none has
\* run before it since the burst of changes began.
SingleDebounceTimer ==
    /\ [](/\ Cardinality(debounceTimers) <= 1
          /\ debounceTimers = (IF saveTimeout = <<>> THEN {} ELSE {saveTimeout[1]}))
    /\ [][(autoSave /\ lastEvent' = "valueChange")
              => debounceTimers' = {DebounceMs}]_vars
    /\ [][lastEvent' = "debounceSave" => writes = burst.writes]_vars

\* the second value change of a burst has left one scheduled callback, with the
\* full delay
TimerReplacedInBurst ==
    /\ autoSave
    /\ lastEvent = "valueChange"
    /\ burst.calls = 2
    /\ debounceTimers = {DebounceMs}
    /\ saveTimeout = <<DebounceMs>>

----------------------------------------------------------------------------
(* Properties of the persistence bridge *)

\* C11: a new instance that loads the document serialized from a grid shows
\* that grid, equal in every field of every cell, with the row and column
\* counts of the document.
SerializationRoundTrip ==
    [][lastEvent' = "mountLoad"
          => /\ tableRows' = useAttributeData[1].tableRows
             /\ rowCount' = useAttributeData[1].rows
             /\ columnCount' = useAttributeData[1].columns]_vars

\* a new instance has loaded a document in which a cell holds the empty string,
\* and shows another value in that cell
EmptyValueReloaded ==
    /\ lastEvent = "mountLoad"
    /\ \E p \in CellPositions(tableRows) :
           /\ CellAt(useAttributeData[1].tableRows, p).sequenceNumber = ""
           /\ CellAt(tableRows, p).sequenceNumber # ""

\* a document that cannot be parsed, declares no rows or no columns, has no
\* tableRows, or has a row without cells
UnusableDocument(doc) ==
    /\ doc # <<>>
    /\ \/ "text" \in DOMAIN doc[1]
       \/ "rows" \in DOMAIN doc[1] /\ doc[1].rows <= 0
       \/ "columns" \in DOMAIN doc[1] /\ doc[1].columns <= 0
       \/ "tableRows" \notin DOMAIN doc[1]
       \/ \E i \in 1..Len(doc[1].tableRows) : "cells" \notin DOMAIN doc[1].tableRows[i]

IsLastWritten(doc) ==
    /\ writes >= 1
    /\ doc # <<>>
    /\ "updatedAt" \in DOMAIN doc[1]
    /\ doc[1].updatedAt = writes

\* C15: a run of the load effect that finds the document the component wrote
\* last, supplied by the host or in place when isSaving ends, leaves the grid,
\* the counts and the selection as they are.
LastWrittenIgnored ==
    [][(/\ writes' = writes
        /\ IsLastWritten(useAttributeData')
        /\ useAttributeData' # useAttributeData \/ (isSaving /\ ~isSaving'))
          => /\ tableRows' = tableRows
             /\ rowCount' = rowCount
             /\ columnCount' = columnCount
             /\ selectedCells' = selectedCells]_vars

\* C15, amended: a run of the load effect that finds the document the component
\* remembers, the one it wrote or loaded last, leaves the grid, the counts and
\* the selection as they are.
RememberedDocumentIgnored ==
    [][(/\ writes' = writes
        /\ lastSavedData # <<>>
        /\ useAttributeData' = lastSavedData
        /\ useAttributeData' # useAttributeData \/ (isSaving /\ ~isSaving'))
          => /\ tableRows' = tableRows
             /\ rowCount' = rowCount
             /\ columnCount' = columnCount
             /\ selectedCells' = selectedCells]_vars

\* the host has presented the document written at mount again, after another
\* one that was turned down, while two cells are selected
WrittenDocumentPresentedAgain ==
    /\ lastEvent = "hostDocumentIgnored"
    /\ ~isSaving
    /\ useAttributeData = WrittenAtMount
    /\ lastSavedData = WrittenAtMount
    /\ Cardinality(selectedCells) = 2

\* a document the component wrote, the last one or an earlier one
WasWritten(doc) ==
    /\ doc # <<>>
    /\ "updatedAt" \in DOMAIN doc[1]
    /\ doc[1].updatedAt \in 1..writes

\* C39: a run of the load effect that finds a document the component wrote,
\* the last one or one before it, supplied by the host or in place when isSaving
\* ends, leaves the grid, the counts and the selection as they are.
WrittenDocumentNeverLoaded ==
    [][(/\ writes' = writes
        /\ WasWritten(useAttributeData')
        /\ useAttributeData' # useAttributeData \/ (isSaving /\ ~isSaving'))
          => UNCHANGED <<gridVars, selectedCells>>]_vars

\* the document written at mount has been loaded after a checkbox change wrote
\* a second one, with isSaving reset: no cell is checked any more
EarlierDocumentLoaded ==
    /\ lastEvent = "load"
    /\ writes = 2
    /\ ~isSaving
    /\ useAttributeData = WrittenAtMount
    /\ lastSavedData = WrittenAtMount
    /\ \A cl \in AllCells(tableRows) : ~cl.checked

\* C16: with autoSave, latestTableStateRef holds the grid the latest value
\* change left; disposal while the debounce timer is pending writes the document
\* of that grid in the same step and clears the timer, and no debounce timer is
\* pending once the component is disposed.
TeardownFlush ==
    /\ [](lastEvent = "valueChange"
            => latestTableState = <<[rows |-> tableRows, rowCount |-> rowCount,
                                     columnCount |-> columnCount]>>)
    /\ [][(mounted /\ ~mounted' /\ autoSave /\ saveTimeout # <<>>)
              => /\ writes' = writes + 1
                 /\ useAttributeData' = Document(latestTableState[1].rows,
                                                 latestTableState[1].rowCount,
                                                 latestTableState[1].columnCount, writes')
                 /\ saveTimeout' = <<>>]_vars
    /\ [](~mounted => saveTimeout = <<>>)

\* the component has been disposed less than DebounceMs after a value change,
\* and the host holds the document written at disposal
FlushedAtTeardown ==
    /\ lastEvent = "unmountFlush"
    /\ ~mounted
    /\ autoSave
    /\ burst.calls >= 1
    /\ burst.since < DebounceMs
    /\ useAttributeData[1].updatedAt = writes
    /\ useAttributeData[1].tableRows = tableRows

\* C17: every run of addRow, addColumn, mergeCells, unmergeCells, blankCells,
\* unblankCells or handleCheckboxChange that changes the grid writes the document
\* of the resulting grid in the same step and leaves the debounce timer alone.
StructuralEditWrites ==
    [][lastEvent' \in {"addRow", "addColumn", "merge", "unmerge", "blank", "unblank", "checkbox"}
          => /\ writes' = writes + 1
             /\ useAttributeData'[1].tableRows = tableRows'
             /\ useAttributeData'[1].updatedAt = writes'
             /\ saveTimeout' = saveTimeout]_vars

\* without autoSave a checkbox has been toggled, and the host still holds the
\* document written at mount
CheckboxToggledUnwritten ==
    /\ lastEvent = "checkbox"
    /\ ~autoSave
    /\ writes = 1
    /\ \E p \in CellPositions(tableRows) : CellAt(tableRows, p).checked
    /\ useAttributeData[1].tableRows # tableRows

----------------------------------------------------------------------------
(* Properties of creation and growth *)

\* dimensions create accepts
ValidDimensions(r, c) == r > 0 /\ c > 0 /\ r <= MaxDimension /\ c <= MaxDimension

\* C18: createNewTable, from the mount timer or from Generate Table, leaves the
\* grid as it is when a dimension is not positive or is above MaxDimension, and
\* addRow and addColumn leave the grid and the counts as they are when the count
\* would pass MaxDimension.
CreateWithinLimits ==
    [][/\ (mountTimer # <<>> /\ lastEvent' = "mount"
              /\ ~ValidDimensions(mountTimer[2], mountTimer[3]))
           => tableRows' = tableRows
       /\ (edits' = edits + 1 /\ lastEvent' \in {"applyDimensions", "applyDimensionsRejected"}
              /\ ~ValidDimensions(rowCount, columnCount))
           => tableRows' = tableRows
       /\ (edits' = edits + 1 /\ lastEvent' \in {"addRow", "addRowRejected"}
              /\ rowCount + 1 > MaxDimension)
           => UNCHANGED gridVars
       /\ (edits' = edits + 1 /\ lastEvent' \in {"addColumn", "addColumnRejected"}
              /\ columnCount + 1 > MaxDimension)
           => UNCHANGED gridVars]_vars

\* the mount timer has created a grid of more rows than MaxDimension
MountedAboveLimit ==
    /\ lastEvent = "mount"
    /\ dataLoaded
    /\ Len(tableRows) > MaxDimension

\* C20: once the grid has been created or loaded, every cell carries the row
\* and column index of its position in the grid, and the id made of them; so
\* does every row.
IndicesMatchPositions ==
    dataLoaded => \A i \in 1..Len(tableRows) :
        /\ tableRows[i].rowIndex = i
        /\ \A j \in 1..Len(tableRows[i].cells) :
               /\ tableRows[i].cells[j].rowIndex = i
               /\ tableRows[i].cells[j].columnIndex = j
               /\ tableRows[i].cells[j].id = cellId(i, j)

\* addRow, run after the host changed the row count attribute, has appended a
\* row whose index another row carries
AppendedRowMisindexed ==
    /\ lastEvent = "addRow"
    /\ \E i, k \in 1..Len(tableRows) :
           i # k /\ tableRows[i].rowIndex = tableRows[k].rowIndex

----------------------------------------------------------------------------
(* Properties of the published statistics *)

\* C21: once a grid exists, the statistics last published to the host (total,
\* blocked and merged-visible cells) are the counts over the current grid, in
\* every state between two handlers, timer callbacks included
StatisticsCurrent ==
    Len(tableRows) > 0 => statistics = <<updateCellStatistics(tableRows)>>

\* the debounce timer has written and published counts that the grid no longer has
StaleStatisticsPublished ==
    /\ lastEvent = "debounceSave"
    /\ Len(tableRows) > 0
    /\ statistics # <<>>
    /\ statistics[1].blockedCells # updateCellStatistics(tableRows).blockedCells

\* the document `doc` and the mirrored counts and statistics describe the grid
DescribesGrid(doc) ==
    /\ doc # <<>>
    /\ DOMAIN doc[1] = {"rows", "columns", "tableRows", "updatedAt"}
    /\ doc[1].tableRows = tableRows
    /\ doc[1].rows = rowCount
    /\ doc[1].columns = columnCount
    /\ rowCountAttribute = <<rowCount>>
    /\ columnCountAttribute = <<columnCount>>
    /\ statistics = <<updateCellStatistics(tableRows)>>

\* C37: with autoSave, while no debounce timer is pending, the document last
\* written to the host, the mirrored counts and the statistics describe the
\* current grid cell for cell; a debounce write that follows a later checkbox
\* change does not put the grid of before that change in their place.
WrittenDocumentCurrent ==
    (autoSave /\ mounted /\ debounceTimers = {} /\ Len(tableRows) > 0)
        => DescribesGrid(useAttributeData)

\* the debounce timer has written the grid of before a checkbox change over the
\* document the checkbox change wrote
StaleDocumentWritten ==
    /\ autoSave /\ mounted /\ debounceTimers = {}
    /\ lastEvent = "debounceSave"
    /\ IsLastWritten(useAttributeData)
    /\ \E i \in 1..Len(tableRows) : \E j \in 1..Len(tableRows[i].cells) :
           /\ tableRows[i].cells[j].checked
           /\ ~useAttributeData[1].tableRows[i].cells[j].checked

----------------------------------------------------------------------------
(* Properties of the first mount *)

\* the count the first mount is said to use for a host attribute
DefaultedCount(attr) == IF attr = <<>> \/ attr[1] <= 0 THEN DefaultCount ELSE attr[1]

\* C22: when the row count or the column count the host supplies is absent or
\* not positive, the grid the mount timer generates, before any edit, has the
\* default count of three in that dimension and consists of default cells
FirstMountDefaults ==
    [][(/\ edits = 0
        /\ lastEvent' = "mount"
        /\ \/ rowCountAttribute = <<>>
           \/ columnCountAttribute = <<>>
           \/ DefaultedCount(rowCountAttribute) # rowCountAttribute[1]
           \/ DefaultedCount(columnCountAttribute) # columnCountAttribute[1])
       => tableRows' = NewTable(DefaultedCount(rowCountAttribute),
                                DefaultedCount(columnCountAttribute))]_vars

\* the mount timer has fired over a row count of zero and there is no grid
MountedWithoutGrid ==
    /\ lastEvent = "mount"
    /\ rowCountAttribute = <<0>>
    /\ mountTimer = <<>>
    /\ tableRows = <<>>
    /\ ~dataLoaded

----------------------------------------------------------------------------
(* Properties of the selection under the operations *)

\* C25: the selection is the one shown member of the new group after a merge
\* that changed the grid; it is empty after blankCells and unblankCells on a
\* non-empty selection, after a document load and after Clear Selection; it is
\* unchanged by unmergeCells, a value change, a checkbox toggle, addRow and
\* addColumn.
SelectionAfterOperation ==
    [][/\ lastEvent' = "merge"
          => LET b == BoundingBox(selectedCells)
                 m == createMergeId(b.minRow, b.minCol, b.maxRow, b.maxCol)
             IN selectedCells' = {CellAt(tableRows', p).id :
                                     p \in {q \in Members(tableRows', m) :
                                               ~CellAt(tableRows', q).isHidden}}
       /\ lastEvent' \in {"blank", "unblank", "load", "clearSelection"}
          => selectedCells' = {}
       /\ lastEvent' \in {"unmerge", "unmergeNothing", "valueChange", "checkbox",
                            "addRow", "addColumn"}
          => selectedCells' = selectedCells]_vars

\* a merge of the second column has left its anchor (1,2) as the only selected cell
SelectionCollapsedToAnchor ==
    /\ lastEvent = "merge"
    /\ Cardinality(Members(tableRows, createMergeId(1, 2, 2, 2))) = 2
    /\ selectedCells = {cellId(1, 2)}

----------------------------------------------------------------------------
(* Properties of the value and checkbox handlers *)

\* the cell at t and the cells that share its merge id, if it has one
GroupOf(rows, t) ==
    {p \in CellPositions(rows) :
        p = t \/ (Truthy(CellAt(rows, t).mergeId)
                     /\ CellAt(rows, p).mergeId = CellAt(rows, t).mergeId)}

\* C28: a value change on a rendered cell gives that cell and every cell that
\* shares its merge id the new value, and changes no other field of those cells
\* and no cell outside the group.
ValueChangeSetsGroupOnly ==
    [][lastEvent' = "valueChange"
          => \E t \in CellPositions(tableRows), v \in Values \cup ReloadValues :
                 /\ CellAt(tableRows, t).id \in VisibleIds(tableRows)
                 /\ \A p \in CellPositions(tableRows) :
                        CellAt(tableRows', p)
                            = IF p \in GroupOf(tableRows, t)
                              THEN [CellAt(tableRows, p) EXCEPT !.sequenceNumber = v]
                              ELSE CellAt(tableRows, p)]_vars

\* a value typed into the anchor of the group (1,1)-(2,1) has reached its hidden
\* member, and the second column keeps the default value
ValueReachedHiddenMember ==
    /\ lastEvent = "valueChange"
    /\ Members(tableRows, createMergeId(1, 1, 2, 1)) = {<<1, 1>>, <<2, 1>>}
    /\ CellAt(tableRows, <<2, 1>>).isHidden
    /\ CellAt(tableRows, <<2, 1>>).sequenceNumber = "a"
    /\ CellAt(tableRows, <<1, 2>>).sequenceNumber = "-"
    /\ CellAt(tableRows, <<2, 2>>).sequenceNumber = "-"

\* C29: a checkbox toggle on a rendered cell sets checked and isBlocked, on that
\* cell and on every cell that shares its merge id, to the negation of the checked
\* field the cell had, and changes nothing else; and in every state reached from
\* a new grid through the edit operations isBlocked equals checked on every cell.
CheckboxBlocksGroup ==
    /\ [](\A cl \in AllCells(tableRows) : cl.isBlocked = cl.checked)
    /\ [][lastEvent' = "checkbox"
             => \E t \in CellPositions(tableRows) :
                    /\ CellAt(tableRows, t).id \in VisibleIds(tableRows)
                    /\ \A p \in CellPositions(tableRows) :
                           CellAt(tableRows', p)
                               = IF p \in GroupOf(tableRows, t)
                                 THEN [CellAt(tableRows, p) EXCEPT
                                          !.checked = ~CellAt(tableRows, t).checked,
                                          !.isBlocked = ~CellAt(tableRows, t).checked]
                                 ELSE CellAt(tableRows, p)]_vars

\* the checkbox of the anchor of the group (1,1)-(1,2) has been ticked: its
\* hidden member is checked and blocked, the second row is neither
HiddenMemberBlocked ==
    /\ lastEvent = "checkbox"
    /\ Members(tableRows, createMergeId(1, 1, 1, 2)) = {<<1, 1>>, <<1, 2>>}
    /\ CellAt(tableRows, <<1, 2>>).isHidden
    /\ CellAt(tableRows, <<1, 2>>).checked /\ CellAt(tableRows, <<1, 2>>).isBlocked
    /\ \A p \in {<<2, 1>>, <<2, 2>>} :
           ~CellAt(tableRows, p).checked /\ ~CellAt(tableRows, p).isBlocked

----------------------------------------------------------------------------
(* Properties of the handlers on addresses that resolve to no cell *)

\* the positions of the cells whose id is in the selection
Resolved(rows, sel) == {p \in CellPositions(rows) : CellAt(rows, p).id \in sel}

\* C30: a value change or checkbox toggle addressed to a cell the grid does not
\* hold changes no cell, writes nothing and starts no timer; blankCells,
\* unblankCells and unmergeCells over a selection of which an id resolves to no
\* cell still act on every selected cell that exists, and change no cell outside
\* the groups of those.
AddressMissIsNoOp ==
    [][/\ lastEvent' \in {"valueChangeMissed", "checkboxMissed"}
          => /\ tableRows' = tableRows
             /\ writes' = writes
             /\ useAttributeData' = useAttributeData
             /\ saveTimeout' = saveTimeout
             /\ savingTimers' = savingTimers
             /\ latestTableState' = latestTableState
       /\ lastEvent' \in {"blank", "unblank", "unmerge", "unmergeNothing"}
          => LET found == Resolved(tableRows, selectedCells)
                 groups == {CellAt(tableRows, p).mergeId : p \in found} \ {<<>>}
             IN \A p \in CellPositions(tableRows) :
                    LET was == CellAt(tableRows, p)
                        now == CellAt(tableRows', p)
                    IN /\ (p \in found /\ lastEvent' = "blank") => now.isBlank
                       /\ (p \in found /\ lastEvent' = "unblank") => ~now.isBlank
                       /\ (p \in found /\ lastEvent' \in {"unmerge", "unmergeNothing"})
                          => FullyUnmerged(now)
                       /\ (p \notin found /\ was.mergeId \notin groups) => now = was]_vars

\* unmergeCells has dissolved the group of the one-row grid that a document
\* brought during a drag, over a selection that still holds cell (2,1) of the
\* grid before it
UnmergedDespiteStaleEntry ==
    /\ lastEvent = "unmerge"
    /\ Len(tableRows) = 1
    /\ cellId(2, 1) \in selectedCells
    /\ cellId(1, 1) \in selectedCells
    /\ \A cl \in AllCells(tableRows) : FullyUnmerged(cl)

----------------------------------------------------------------------------
(* Properties of the selection across a document load *)

\* C38: in every state every address in the selection names a cell of the
\* current grid, a document with fewer rows loaded between the pointerdown and
\* a later pointermove of one drag included.
SelectionNamesCells ==
    \A id \in selectedCells : CellPos(tableRows, parseCellId(id)[1], parseCellId(id)[2]) # <<>>

\* a pointermove of a drag that began in row 2 has just selected a cell of row 2,
\* in the one-row grid that a document brought after the pointerdown
MoveSelectedLostCell ==
    /\ lastEvent = "pointerMove"
    /\ isDragging
    /\ Len(tableRows) = 1
    /\ dragStart # <<>> /\ dragStart[1] = 2
    /\ \E id \in selectedCells : parseCellId(id)[1] = 2

----------------------------------------------------------------------------
(* Properties of Select All *)

\* C31: after Select All the selection is exactly the ids of the cells that are
\* not hidden, whatever was selected before: the one shown member of every merge
\* group and every cell that carries no merge id.
SelectAllTakesShownCells ==
    [][lastEvent' = "selectAll"
          => /\ selectedCells' = {CellAt(tableRows, p).id :
                                     p \in {q \in CellPositions(tableRows) :
                                               ~CellAt(tableRows, q).isHidden}}
             /\ selectedCells' = {CellAt(tableRows, p).id :
                                     p \in {q \in CellPositions(tableRows) :
                                        \/ CellAt(tableRows, q).mergeId = <<>>
                                        \/ /\ CellAt(tableRows, q).rowIndex
                                                  = CellAt(tableRows, q).mergeId[1]
                                           /\ CellAt(tableRows, q).columnIndex
                                                  = CellAt(tableRows, q).mergeId[2]}}]_vars

\* Select All on the 2 x 3 grid that holds the group (1,1)-(1,2) has selected
\* five cells, the hidden cell (1,2) not among them
HiddenCellNotSelected ==
    /\ lastEvent = "selectAll"
    /\ Members(tableRows, createMergeId(1, 1, 1, 2)) = {<<1, 1>>, <<1, 2>>}
    /\ cellId(1, 2) \notin selectedCells
    /\ Cardinality(selectedCells) = 5

----------------------------------------------------------------------------
(* Properties of the growth of the grid *)

\* the cell has the field values of a newly created cell
IsDefaultCell(cl) == cl = DefaultCell(cl.rowIndex, cl.columnIndex)

\* C32: addRow and addColumn only append. Every cell the grid held keeps its
\* position and all its fields; addRow adds one row of columnCount default
\* cells after the last row; addColumn adds one default cell at the end of
\* every row.
GrowthOnlyAppends ==
    [][/\ lastEvent' = "addRow"
          => /\ Len(tableRows') = Len(tableRows) + 1
             /\ SubSeq(tableRows', 1, Len(tableRows)) = tableRows
             /\ Len(tableRows'[Len(tableRows')].cells) = columnCount
             /\ \A j \in 1..columnCount :
                    /\ IsDefaultCell(tableRows'[Len(tableRows')].cells[j])
                    /\ tableRows'[Len(tableRows')].cells[j].columnIndex = j
       /\ lastEvent' = "addColumn"
          => /\ Len(tableRows') = Len(tableRows)
             /\ \A i \in 1..Len(tableRows) :
                    /\ tableRows'[i].rowIndex = tableRows[i].rowIndex
                    /\ Len(tableRows'[i].cells) = Len(tableRows[i].cells) + 1
                    /\ SubSeq(tableRows'[i].cells, 1, Len(tableRows[i].cells))
                           = tableRows[i].cells
                    /\ IsDefaultCell(tableRows'[i].cells[Len(tableRows'[i].cells)])]_vars

\* a row of two default cells has been added below the group (1,1)-(1,2), whose
\* anchor still spans two columns and whose second cell is still hidden
RowAddedBelowGroup ==
    /\ lastEvent = "addRow"
    /\ Len(tableRows) = 3
    /\ CellAt(tableRows, <<1, 1>>).colSpan = 2
    /\ CellAt(tableRows, <<1, 2>>).isHidden
    /\ CellAt(tableRows, <<1, 2>>).mergeId = createMergeId(1, 1, 1, 2)
    /\ tableRows[3] = NewRow(3, 2)
====
